---- MODULE Spec2Model ----
(***************************************************************************)
(* Unified File Manager: the three polling watchers (OOC upload ingest,    *)
(* job folder promotion, loose file reconciliation), the revert ledger and *)
(* the revert / delete-log operations of the control surface, modelled     *)
(* over an explicit file system tree.                                      *)
(*                                                                         *)
(* A file name is a sequence of one-character strings, a path a sequence   *)
(* of names.  The file system maps every existing path to a node           *)
(* [kind, id]: the id is the identity of the file or folder that lives     *)
(* there, so that a lost, overwritten or nested item is visible.           *)
(***************************************************************************)
EXTENDS Naturals, Sequences, FiniteSets, TLC

(***************************************************************************)
(* Bounds of the model.                                                    *)
(***************************************************************************)
MaxClock == 0
MaxCycles == 1
MaxReverts == 1
MaxLoops == 2
MaxFaults == 1
MaxSuffix == 2      \* numbered variants of a name that may exist beforehand

(***************************************************************************)
(* Characters and strings (str.upper, str.lower, startswith, endswith,     *)
(* the in operator on strings).                                            *)
(***************************************************************************)
LowerLetters == <<"a","b","c","d","e","f","g","h","i","j","k","l","m",
                  "n","o","p","q","r","s","t","u","v","w","x","y","z">>
UpperLetters == <<"A","B","C","D","E","F","G","H","I","J","K","L","M",
                  "N","O","P","Q","R","S","T","U","V","W","X","Y","Z">>
Digits == {"0","1","2","3","4","5","6","7","8","9"}

UpperChar(c) ==
    IF \E i \in 1..26 : LowerLetters[i] = c
    THEN UpperLetters[CHOOSE i \in 1..26 : LowerLetters[i] = c]
    ELSE c

LowerChar(c) ==
    IF \E i \in 1..26 : UpperLetters[i] = c
    THEN LowerLetters[CHOOSE i \in 1..26 : UpperLetters[i] = c]
    ELSE c

Upper(s) == [i \in 1..Len(s) |-> UpperChar(s[i])]
\* A lower() that leaves the name as it is.
LowerAsIs(s) == s
Lower(s) == [i \in 1..Len(s) |-> LowerChar(s[i])]

StartsWith(s, p) == Len(p) <= Len(s) /\ SubSeq(s, 1, Len(p)) = p
EndsWith(s, p) == Len(p) <= Len(s) /\ SubSeq(s, Len(s) - Len(p) + 1, Len(s)) = p
Contains(s, p) == \E i \in 0..(Len(s) - Len(p)) : SubSeq(s, i + 1, i + Len(p)) = p

(***************************************************************************)
(* Paths (os.path.join, dirname, basename) and the file system.            *)
(***************************************************************************)
Join(dir, name) == Append(dir, name)
DirName(p) == SubSeq(p, 1, Len(p) - 1)
BaseName(p) == p[Len(p)]
IsPrefix(p, q) == Len(p) <= Len(q) /\ SubSeq(q, 1, Len(p)) = p

Exists(f, p) == p \in DOMAIN f
IsDir(f, p) == p \in DOMAIN f /\ f[p].kind = "dir"
ListDir(f, p) == {BaseName(q) : q \in {r \in DOMAIN f : Len(r) = Len(p) + 1 /\ IsPrefix(p, r)}}

NoNode == [kind |-> "none", id |-> "none"]
NodeAt(f, p) == IF p \in DOMAIN f THEN f[p] ELSE NoNode

\* os.makedirs(p, exist_ok=True): every missing ancestor of p and p itself
\* become directories; ok is FALSE when a file is in the way.
MakeDirs(f, p) ==
    LET pre == {SubSeq(p, 1, n) : n \in 1..Len(p)}
        blocked == \E q \in pre : Exists(f, q) /\ ~IsDir(f, q)
        new == {q \in pre : ~Exists(f, q)}
    IN  IF blocked THEN [ok |-> FALSE, fs |-> f]
        ELSE [ok |-> TRUE,
              fs |-> [q \in DOMAIN f \cup new |->
                        IF q \in DOMAIN f THEN f[q] ELSE [kind |-> "dir", id |-> "made"]]]

\* Rename as a copy: the tree appears below dst and stays below src.
RenameKeepsSource(f, src, dst) ==
    LET moved == {q \in DOMAIN f : IsPrefix(src, q)}
        to(q) == dst \o SubSeq(q, Len(src) + 1, Len(q))
        from(r) == src \o SubSeq(r, Len(dst) + 1, Len(r))
        newdom == DOMAIN f \cup {to(q) : q \in moved}
    IN  [r \in newdom |-> IF IsPrefix(dst, r) THEN f[from(r)] ELSE f[r]]

\* os.rename of the tree rooted at src to dst (dst absent): every path below
\* src is re-rooted below dst, the nodes keep their identity.
Rename(f, src, dst) ==
    LET moved == {q \in DOMAIN f : IsPrefix(src, q)}
        to(q) == dst \o SubSeq(q, Len(src) + 1, Len(q))
        from(r) == src \o SubSeq(r, Len(dst) + 1, Len(r))
        newdom == (DOMAIN f \ moved) \cup {to(q) : q \in moved}
    IN  [r \in newdom |-> IF IsPrefix(dst, r) THEN f[from(r)] ELSE f[r]]

Remove(f, p) == [q \in DOMAIN f \ {p} |-> f[q]]

\* shutil.move(src, dst).  fault is the failure the environment injects
\* ("none", "perm" for PermissionError, "other" for any other OSError).
\*  - dst an existing directory: the source is moved INTO it, and the move
\*    raises if the name is taken there;
\*  - dst an existing file: a file source replaces it, a directory source
\*    raises;
\*  - a directory source whose destination parent is missing is copied with
\*    copytree, which creates the parents; a file source raises.
\* A failed move leaves the tree as it was.
MoveFailed(f, e) == [ok |-> FALSE, fs |-> f, err |-> e, dst |-> <<>>]
MoveDone(f, d) == [ok |-> TRUE, fs |-> f, err |-> "none", dst |-> d]

Relocate(f, src, dst) ==
    LET real == IF IsDir(f, dst) /\ src # dst THEN Join(dst, BaseName(src)) ELSE dst
    IN  IF ~Exists(f, src) THEN MoveFailed(f, "other")
        ELSE IF src = dst THEN MoveDone(f, dst)
        ELSE IF IsDir(f, dst) /\ Exists(f, real) THEN MoveFailed(f, "other")
        ELSE IF IsPrefix(src, real) THEN MoveFailed(f, "other")
        ELSE IF f[src].kind = "dir"
             THEN IF Exists(f, real) THEN MoveFailed(f, "other")
                  ELSE LET mk == MakeDirs(f, DirName(real))
                       IN  IF mk.ok THEN MoveDone(Rename(mk.fs, src, real), real)
                           ELSE MoveFailed(f, "other")
        ELSE IF ~IsDir(f, DirName(real)) THEN MoveFailed(f, "other")
        ELSE IF Exists(f, real) THEN MoveDone(Rename(Remove(f, real), src, real), real)
        ELSE MoveDone(Rename(f, src, real), real)

\* shutil.move that has removed the source when it fails.
ShutilMoveLosesSource(f, src, dst, fault) ==
    IF fault # "none"
    THEN [ok |-> FALSE, fs |-> Remove(f, src), err |-> fault, dst |-> <<>>]
    ELSE Relocate(f, src, dst)

\* shutil.move that fails only after the tree has been relocated.
ShutilMoveRaisesLate(f, src, dst, fault) ==
    IF fault # "none"
    THEN [ok |-> FALSE, fs |-> Relocate(f, src, dst).fs, err |-> fault, dst |-> <<>>]
    ELSE Relocate(f, src, dst)

ShutilMove(f, src, dst, fault) ==
    IF fault # "none" THEN MoveFailed(f, fault) ELSE Relocate(f, src, dst)

(***************************************************************************)
(* Configuration.  The two roots are single path components; the importer  *)
(* map is cut down to two of its entries, kept in dictionary order.        *)
(***************************************************************************)
SOURCE_BASE == << <<"Y", ":">> >>
UPLOAD_NAME == <<"U","p","l","o","a","d","_","o","o","c">>
UPLOAD_OOC == Join(SOURCE_BASE, UPLOAD_NAME)
BILLING_BASE == << <<"Z", ":">> >>
\* The literal the job mover compares a lower-cased folder name with.
INBOX_SKIP == <<"u","p","l","o","a","d","_","o","o","c">>

BlueStar == <<"B","L","U","E"," ","S","T","A","R">>
TeslaIndia == <<"T","E","S","L","A"," ","I","N","D","I","A">>
IMPORTER_MAP ==
    << [key |-> "BLUE STAR ENGINEERING & ELECTRONICS LIMITED", folder |-> BlueStar],
       [key |-> "TESLA INDIA MOTORS AND ENERGY PRIVATE LIMITED", folder |-> TeslaIndia] >>
ImporterKeys == {IMPORTER_MAP[i].key : i \in 1..Len(IMPORTER_MAP)}

\* The two glob patterns of the job mover, as (prefix, suffix) around the *.
TRIGGER_PATTERNS ==
    << [pre |-> <<"O","u","t","_","o","f","_","C","h","a","r","g","e","_","I","R","_">>,
        suf |-> <<".","p","d","f">>],
       [pre |-> <<"O","u","t"," ","o","f"," ","C","h","a","r","g","e","_","I","R","_">>,
        suf |-> <<".","p","d","f">>] >>

\* datetime.now().strftime("%Y%m%d%H%M%S"): fourteen digits; the clock of the
\* model counts the seconds of one minute.
DigitOf == <<"0","1","2","3","4","5","6","7","8","9">>
Stamp(t) == <<"2","0","2","6","1","1","0","3","1","2","0","0","0", DigitOf[t + 1]>>
WithStamp(p, t) == Join(DirName(p), BaseName(p) \o <<"_">> \o Stamp(t))

(***************************************************************************)
(* Pure helpers of the job mover.                                          *)
(***************************************************************************)
TRIGGER_KEYWORDS ==
    { <<"O","U","T","_","O","F","_","C","H","A","R","G","E","_","I","R","_">>,
      <<"O","U","T"," ","O","F"," ","C","H","A","R","G","E","_","I","R","_">> }

\* is_trigger_file: the upper-cased name starts with a trigger keyword.
is_trigger_file(filename) == \E k \in TRIGGER_KEYWORDS : StartsWith(Upper(filename), k)

\* fnmatch of a name against prefix*suffix; glob compares case-insensitively
\* on the platform the paths are written for (os.path.normcase).
\* An fnmatch that compares the part before the star only.
GlobMatchPrefix(name, pat) ==
    /\ Len(name) >= Len(pat.pre) + Len(pat.suf)
    /\ StartsWith(Lower(name), Lower(pat.pre))
GlobMatch(name, pat) ==
    /\ Len(name) >= Len(pat.pre) + Len(pat.suf)
    /\ StartsWith(Lower(name), Lower(pat.pre))
    /\ EndsWith(Lower(name), Lower(pat.suf))

\* glob.glob(SOURCE_BASE/*/pattern): the matching entries of the immediate
\* child directories of the working area.
GlobTriggers(f, pat) ==
    {p \in DOMAIN f : /\ Len(p) = Len(SOURCE_BASE) + 2
                      /\ IsPrefix(SOURCE_BASE, p)
                      /\ IsDir(f, DirName(p))
                      /\ GlobMatch(BaseName(p), pat)}

\* find_importer: the first key of the map, in dictionary order, that occurs
\* in the text.  A text is the set of map keys that occur in it.
find_importer(keys) ==
    IF \E i \in 1..Len(IMPORTER_MAP) : IMPORTER_MAP[i].key \in keys
    THEN IMPORTER_MAP[CHOOSE i \in 1..Len(IMPORTER_MAP) :
            /\ IMPORTER_MAP[i].key \in keys
            /\ \A j \in 1..(i - 1) : IMPORTER_MAP[j].key \notin keys].key
    ELSE "None"

\* IMPORTER_MAP.get(importer)
MapGet(importer) ==
    IF \E i \in 1..Len(IMPORTER_MAP) : IMPORTER_MAP[i].key = importer
    THEN IMPORTER_MAP[CHOOSE i \in 1..Len(IMPORTER_MAP) : IMPORTER_MAP[i].key = importer].folder
    ELSE <<>>

\* All the orders in which a directory listing can return a set of entries.
Orders(S) == {s \in [1..Cardinality(S) -> S] : \A i, j \in 1..Cardinality(S) : s[i] = s[j] => i = j}

(***************************************************************************)
(* Pure helpers of the file watchers: the two job number patterns,         *)
(* os.path.splitext and unique_filename.                                    *)
(***************************************************************************)
MONITORED_EXTENSIONS ==
    { <<".","p","d","f">>, <<".","d","o","c","x">>, <<".","x","l","s","x">>,
      <<".","j","p","g">>, <<".","p","n","g">>, <<".","z","i","p">> }
PdfExt == <<".","p","d","f">>
Separators == {"_", " ", "-"}

DigitsAt(s, i, n) == i + n - 1 <= Len(s) /\ \A k \in 0..(n - 1) : s[i + k] \in Digits

\* ir_pattern = IR[_\s-]?(\d{5}), IGNORECASE: where a match starting at i
\* has its five digits (0 when there is no match at i).
IrDigitsAt(s, i) ==
    IF i + 1 <= Len(s) /\ UpperChar(s[i]) = "I" /\ UpperChar(s[i + 1]) = "R"
    THEN IF i + 2 <= Len(s) /\ s[i + 2] \in Separators /\ DigitsAt(s, i + 3, 5) THEN i + 3
         ELSE IF DigitsAt(s, i + 2, 5) THEN i + 2
         ELSE 0
    ELSE 0

\* ir_pattern.search(filename) and the job number made of its group:
\* "IR" and the five digits of the leftmost match, <<>> when none.
IrJobNo(s) ==
    LET hits == {i \in 1..Len(s) : IrDigitsAt(s, i) # 0}
        first == CHOOSE i \in hits : \A j \in hits : i <= j
        d == IrDigitsAt(s, first)
    IN  IF hits = {} THEN <<>> ELSE <<"I", "R">> \o SubSeq(s, d, d + 4)

\* JOB_NUMBER_REGEX = (IR|ER)[\s_-]?(\d{4,5}), IGNORECASE: where a match
\* starting at i has its digits (0 when there is no match at i).
JobDigitsAt(s, i) ==
    IF i + 1 <= Len(s) /\ UpperChar(s[i]) \in {"I", "E"} /\ UpperChar(s[i + 1]) = "R"
    THEN IF i + 2 <= Len(s) /\ s[i + 2] \in Separators /\ DigitsAt(s, i + 3, 4) THEN i + 3
         ELSE IF DigitsAt(s, i + 2, 4) THEN i + 2
         ELSE 0
    ELSE 0

\* An extract_job_number that leaves the prefix as it is written.
extract_job_number_as_written(s) ==
    LET hits == {i \in 1..Len(s) : JobDigitsAt(s, i) # 0}
        first == CHOOSE i \in hits : \A j \in hits : i <= j
        d == JobDigitsAt(s, first)
        n == IF DigitsAt(s, d, 5) THEN 5 ELSE 4
    IN  IF hits = {} THEN <<>>
        ELSE <<s[first], s[first + 1]>> \o SubSeq(s, d, d + n - 1)

\* extract_job_number: prefix in upper case and the four or five digits
\* (five when a fifth follows) of the leftmost match, <<>> when none.
extract_job_number(s) ==
    LET hits == {i \in 1..Len(s) : JobDigitsAt(s, i) # 0}
        first == CHOOSE i \in hits : \A j \in hits : i <= j
        d == JobDigitsAt(s, first)
        n == IF DigitsAt(s, d, 5) THEN 5 ELSE 4
    IN  IF hits = {} THEN <<>>
        ELSE <<UpperChar(s[first]), UpperChar(s[first + 1])>> \o SubSeq(s, d, d + n - 1)

\* os.path.splitext of a name: the extension starts at the last dot, unless
\* only dots precede it.
SplitExt(name) ==
    LET dots == {i \in 1..Len(name) : name[i] = "."}
        last == CHOOSE i \in dots : \A j \in dots : j <= i
    IN  IF dots # {} /\ (\E j \in 1..(last - 1) : name[j] # ".")
        THEN [base |-> SubSeq(name, 1, last - 1), ext |-> SubSeq(name, last, Len(name))]
        ELSE [base |-> name, ext |-> <<>>]

\* str(counter)
Decimal(n) == IF n < 10 THEN <<DigitOf[n + 1]>> ELSE <<DigitOf[(n \div 10) + 1], DigitOf[(n % 10) + 1]>>

Numbered(p, n) ==
    LET x == SplitExt(BaseName(p))
    IN  Join(DirName(p), x.base \o <<"_">> \o Decimal(n) \o x.ext)

\* A unique_filename whose counter starts at 2.
unique_filename_from_2(f, p) ==
    IF ~Exists(f, p) THEN p
    ELSE LET n == CHOOSE k \in 2..(Cardinality(DOMAIN f) + 2) :
                     /\ ~Exists(f, Numbered(p, k))
                     /\ \A j \in 2..(k - 1) : Exists(f, Numbered(p, j))
         IN  Numbered(p, n)

\* A unique_filename that always answers the path itself.
unique_filename_as_is(f, p) == p

\* unique_filename: the path itself when it is free, else the first free
\* base_1, base_2, ... (one more candidate than there are paths suffices).
unique_filename(f, p) ==
    IF ~Exists(f, p) THEN p
    ELSE LET n == CHOOSE k \in 1..(Cardinality(DOMAIN f) + 1) :
                     /\ ~Exists(f, Numbered(p, k))
                     /\ \A j \in 1..(k - 1) : Exists(f, Numbered(p, j))
         IN  Numbered(p, n)

\* The same search comparing the names as they are written.
MatchingDirsCased(f, dir, job_number) ==
    {n \in ListDir(f, dir) : IsDir(f, Join(dir, n)) /\ Contains(n, job_number)}

\* The directories of dir whose name contains the job number, upper-cased
\* (the loop of find_matching_job_folder and of the ingest fallback search).
MatchingDirs(f, dir, job_number) ==
    {n \in ListDir(f, dir) : IsDir(f, Join(dir, n)) /\ Contains(Upper(n), Upper(job_number))}

(***************************************************************************)
(* The tree the model starts from: a working-area job folder holding two  *)
(* trigger documents, one more uploaded to the inbox, one company         *)
(* folder with a stray copy of it, and what an earlier session left: in   *)
(* scenario "moved" a same-named job folder it promoted, with its ledger   *)
(* row; in scenario "reverted" the ledger row of a promotion of the job    *)
(* folder that was reverted since; in scenario "none" nothing.             *)
(***************************************************************************)
JobName == <<"I","R","1","2","3","4","5">>
TrigUnderscore == <<"O","u","t","_","o","f","_","C","h","a","r","g","e","_","I","R","_",
                    "1","2","3","4","5",".","p","d","f">>
TrigSpace == <<"O","u","t"," ","o","f"," ","C","h","a","r","g","e","_","I","R","_",
               "1","2","3","4","5",".","p","d","f">>

Dir(i) == [kind |-> "dir", id |-> i]
File(i) == [kind |-> "file", id |-> i]
Tree(entries) == [p \in {e[1] : e \in entries} |-> (CHOOSE e \in entries : e[1] = p)[2]]

JobPath == Join(SOURCE_BASE, JobName)
CompanyPath == Join(BILLING_BASE, BlueStar)
OldPath == Join(CompanyPath, JobName)

BaseTree ==
    { <<SOURCE_BASE, Dir("src")>>, <<BILLING_BASE, Dir("bill")>>, <<UPLOAD_OOC, Dir("inbox")>>,
      <<JobPath, Dir("F")>>, <<Join(JobPath, TrigUnderscore), File("T1")>>,
      <<Join(JobPath, TrigSpace), File("T2")>>,
      <<Join(UPLOAD_OOC, TrigUnderscore), File("U")>>,
      <<CompanyPath, Dir("co")>>, <<Join(CompanyPath, TrigUnderscore), File("L")>> }
OldTree == { <<OldPath, Dir("E")>> }

\* Scenario "docs": the job folder also holds a document with the trigger
\* prefix that is no PDF, a trigger document written in lower case, and a
\* trigger document one level further down.
TrigDocx == <<"O","u","t","_","o","f","_","C","h","a","r","g","e","_","I","R","_",
              "1","2","3","4","5",".","d","o","c","x">>
TrigLower == <<"o","u","t","_","o","f","_","c","h","a","r","g","e","_","i","r","_",
               "1","2","3","4","5",".","p","d","f">>
SubName == <<"s","u","b">>
DocsTree ==
    { <<Join(JobPath, TrigDocx), File("D1")>>, <<Join(JobPath, TrigLower), File("D2")>>,
      <<Join(JobPath, SubName), Dir("sub")>>,
      <<Join(Join(JobPath, SubName), TrigUnderscore), File("D3")>> }

\* Scenarios of the inbox.  "digits": a PDF with six digits after IR and one
\* with four.  "stuck": a PDF without job number and one whose job folder
\* does not exist.  "other": a file that is no PDF and a directory.
SixDigits == <<"I","R","_","1","2","3","4","5","6",".","p","d","f">>
FourDigits == <<"I","R","_","1","2","3","4",".","p","d","f">>
NoNumber == <<"n","o","t","e","s",".","p","d","f">>
NoFolder == <<"I","R","_","5","4","3","2","1",".","p","d","f">>
NoPdf == <<"I","R","_","1","2","3","4","5",".","t","x","t">>
InboxTree(old) ==
    CASE old = "digits" -> { <<Join(UPLOAD_OOC, SixDigits), File("X6")>>,
                             <<Join(UPLOAD_OOC, FourDigits), File("X4")>> }
      [] old = "stuck" -> { <<Join(UPLOAD_OOC, NoNumber), File("NK")>>,
                            <<Join(UPLOAD_OOC, NoFolder), File("NF")>> }
      [] old = "other" -> { <<Join(UPLOAD_OOC, NoPdf), File("NP")>>,
                            <<Join(UPLOAD_OOC, SubName), Dir("sub")>> }
      [] OTHER -> {}

\* Scenarios of the billing base.  "strays": the company folder holds a job
\* folder for the stray document's job number, with a document of the same
\* name inside.  "kept": the company folder holds no such job folder, but
\* another directory, a file of an extension that is not monitored and a
\* file without job number; and an excluded folder holds a job folder and
\* a stray document for it.
ExcludedName == <<"A","U","T","O","_","S","C","R","I","P","T">>
ExcludedPath == Join(BILLING_BASE, ExcludedName)
BillingTree(old) ==
    CASE old = "strays" -> OldTree \cup { <<Join(OldPath, TrigUnderscore), File("EL")>> }
      [] old = "kept" -> { <<Join(CompanyPath, SubName), Dir("sub")>>,
                           <<Join(CompanyPath, NoPdf), File("NP")>>,
                           <<Join(CompanyPath, NoNumber), File("NK")>>,
                           <<ExcludedPath, Dir("ex")>>,
                           <<Join(ExcludedPath, JobName), Dir("XE")>>,
                           <<Join(ExcludedPath, TrigUnderscore), File("XL")>> }
      [] OTHER -> {}

\* Scenario "blank": the working area holds a second job folder whose two
\* trigger documents cannot be classified: one names no importer of the
\* map, the other is a scan without text.
BlankName == <<"I","R","5","4","3","2","1">>
BlankPath == Join(SOURCE_BASE, BlankName)
BlankTree ==
    { <<BlankPath, Dir("G")>>, <<Join(BlankPath, TrigUnderscore), File("B")>>,
      <<Join(BlankPath, TrigSpace), File("N")>> }

\* What a scenario adds to the base tree.
ExtraTree(old) ==
    CASE old \in {"moved", "twin", "orphan"} -> OldTree
      [] old = "docs" -> DocsTree
      [] old = "blank" -> BlankTree
      [] old \in {"digits", "stuck", "other"} -> InboxTree(old)
      [] old \in {"strays", "kept"} -> BillingTree(old)
      [] OTHER -> {}
\* The row of the earlier session carries a later time than any row of this
\* one (the clock was set back since): the ledger is never read by time.
OldRow == [job |-> JobName, original |-> JobPath, moved |-> OldPath, ts |-> MaxClock + 1]

\* Scenario "names": the inbox holds a document named by its job number, and
\* the job folder holds any of that name and its numbered variants (0 stands
\* for the name itself), as the scenario's field "taken" says.
Plain == <<"I","R","1","2","3","4","5",".","p","d","f">>
Variant(k) == <<"I","R","1","2","3","4","5","_">> \o <<DigitOf[k + 1]>> \o <<".","p","d","f">>
Candidate(k) == Join(JobPath, IF k = 0 THEN Plain ELSE Variant(k))
TakenTree(scenario) ==
    IF scenario.old = "names"
    THEN { <<Join(UPLOAD_OOC, Plain), File("P")>> }
           \cup { <<Candidate(k), File("V")>> : k \in scenario.taken }
    ELSE {}

\* Scenario "keys": the company folder holds the job folder and one stray
\* document, named as the scenario's field "stray" says: the job number in
\* lower and mixed case, with each separator and with none, and behind
\* another key.
KeyNames ==
    { <<"i","r","-","1","2","3","4","5",".","p","d","f">>,
      <<"I","r"," ","1","2","3","4","5",".","p","d","f">>,
      <<"i","R","_","1","2","3","4","5",".","p","d","f">>,
      <<"I","R","1","2","3","4","5",".","p","d","f">>,
      <<"c","o","p","y"," ","i","r","1","2","3","4","5","6",".","p","d","f">>,
      <<"E","R","1","2","3","4"," ","I","R","_","1","2","3","4","5",".","p","d","f">>,
      <<"I","R","-","1","2","3","4"," ","I","R","1","2","3","4","5",".","p","d","f">> }
StrayTree(scenario) ==
    IF scenario.old = "keys"
    THEN { <<Join(CompanyPath, JobName), Dir("J")>>,
           <<Join(CompanyPath, scenario.stray), File("K")>> }
    ELSE {}

\* Scenario "pick": the inbox holds a document for a second job number, and
\* the working area holds any of three folders for it, as the scenario's
\* field "dirs" says: one named by the job number alone, one with the
\* number in lower case and a remark, one with the number behind a year;
\* and always a folder named by the first four digits only and a file, not
\* a folder, whose name contains the number.
PickDoc == <<"i","r","-","5","4","3","2","1",".","p","d","f">>
PickKey == <<"I","R","5","4","3","2","1">>
PickDirs == { PickKey, <<"i","r","5","4","3","2","1"," ","o","l","d">>, <<"2","0","2","4"," ","I","R","5","4","3","2","1">> }
PickTree(scenario) ==
    IF scenario.old = "pick"
    THEN { <<Join(UPLOAD_OOC, PickDoc), File("Q")>>,
           <<Join(SOURCE_BASE, <<"I","R","5","4","3","2">>), Dir("short")>>,
           <<Join(SOURCE_BASE, <<"I","R","5","4","3","2","1",".","t","x","t">>), File("note")>> }
           \cup { <<Join(SOURCE_BASE, n), Dir(n)>> : n \in scenario.dirs }
    ELSE {}

\* Scenario "orphan": the job folder an earlier session promoted came from a
\* directory of the working area that is no longer there.
GoneDir == Join(SOURCE_BASE, <<"2","0","2","4">>)
OrphanRow == [job |-> JobName, original |-> Join(GoneDir, JobName), moved |-> OldPath,
              ts |-> MaxClock + 1]

\* Scenario "marker": an earlier session promoted a job folder whose name
\* says how it was filed; the folder is no longer at its moved path.
MarkedName == <<"I","R","1","2","3","4","5"," ","s","u","c","c","e","s","s","f","u","l","l","y"," ","f","i","l","e","d">>
MarkedRow == [job |-> MarkedName, original |-> Join(SOURCE_BASE, MarkedName),
              moved |-> Join(CompanyPath, MarkedName), ts |-> MaxClock + 1]

\* Scenario "ledger": the ledger holds the row of another job, promoted by
\* an earlier session and of no further interest.
OtherJob == <<"I","R","5","4","3","2","1">>
OtherRow == [job |-> OtherJob, original |-> Join(SOURCE_BASE, OtherJob),
             moved |-> Join(CompanyPath, OtherJob), ts |-> 0]

\* extract_text_from_pdf of each document: the importer keys in its text.
\* The document of the job folder that arrives later names both importers.
DocText == [i \in {"T1", "T2", "U", "L", "D1", "D2", "D3", "T3", "B", "N"} |->
               IF i = "T3" THEN {IMPORTER_MAP[1].key, IMPORTER_MAP[2].key}
               ELSE IF i \in {"B", "N"} THEN {}
               ELSE {IMPORTER_MAP[1].key}]
\* The documents whose first page has no text at all.
NoText == {"N"}

(***************************************************************************)
(* State.                                                                  *)
(***************************************************************************)
VARIABLES
    fs,             \* the file system tree: path -> [kind, id]
    now,            \* the wall clock, in seconds
    running,        \* ooc_upload_running, job_move_running, loose_file_running
    stats,          \* ooc_upload_stats, job_move_stats, loose_file_stats
    loops,          \* the watcher threads: [pc, todo, sub, cur] per watcher and slot
    cycles,         \* poll cycles begun per watcher
    oocLog,         \* OOC_UPLOAD_LOG rows
    moveLog,        \* MOVE_LOG rows
    looseLog,       \* LOOSE_FILE_LOG rows
    revertLog,      \* REVERT_LOG rows (the transaction ledger), header excluded
    historyLog,     \* REVERT_HISTORY_LOG rows
    gui,            \* the control surface: [pc, job, cur, rows, result]
    reverts,        \* revert_job invocations so far
    faults,         \* failures injected so far
    appended,       \* rows ever appended to REVERT_LOG
    cfg             \* the scenario: [old, watchers, loops, cycles, reverts, faults, clock]

vars == <<fs, now, running, stats, loops, cycles, oocLog, moveLog, looseLog,
          revertLog, historyLog, gui, reverts, faults, appended, cfg>>

\* The tracked items: every file and job folder of the initial tree.
Items == {"F", "T1", "T2", "U", "L"} \cup (IF cfg.old = "moved" THEN {"E"} ELSE {})

Watchers == {"ooc", "job", "loose"}
Slots == 1..MaxLoops

NoCur == [src |-> <<>>, dst |-> <<>>, free |-> <<>>, tag |-> <<>>]
Off == [pc |-> "off", todo |-> <<>>, sub |-> <<>>, cur |-> NoCur]
AtLoop == [pc |-> "loop", todo |-> <<>>, sub |-> <<>>, cur |-> NoCur]
GuiIdle(job, res) ==
    [pc |-> "idle", job |-> job, cur |-> NoCur, rows |-> <<>>, result |-> res]

\* The initial states of a scenario.
Start0(scenarios) ==
    /\ cfg \in scenarios
    /\ fs = Tree(BaseTree \cup ExtraTree(cfg.old) \cup TakenTree(cfg) \cup StrayTree(cfg)
                 \cup PickTree(cfg))
    /\ now = 0
    /\ running = [w \in Watchers |-> FALSE]
    /\ stats = [w \in Watchers |-> [moved |-> 0, skipped |-> 0, errors |-> 0]]
    /\ loops = [w \in Watchers |-> [i \in Slots |-> Off]]
    /\ cycles = [w \in Watchers |-> 0]
    /\ oocLog = <<>>
    /\ moveLog = <<>>
    /\ looseLog = <<>>
    /\ revertLog = IF cfg.old \in {"moved", "reverted", "twin"} THEN <<OldRow>>
                   ELSE IF cfg.old = "ledger" THEN <<OtherRow>>
                   ELSE IF cfg.old = "orphan" THEN <<OrphanRow>>
                   ELSE IF cfg.old = "marker" THEN <<MarkedRow>> ELSE <<>>
    /\ historyLog = <<>>
    /\ gui = GuiIdle(<<>>, "")
    /\ reverts = 0
    /\ faults = 0
    /\ appended = 0

Scenario(old, watchers, loopsPer, cyc, rev, flt, clk) ==
    [old |-> old, watchers |-> watchers, loops |-> loopsPer, cycles |-> cyc,
     reverts |-> rev, faults |-> flt, clock |-> clk]

Init == Start0({Scenario(old, {"job"}, 1, MaxCycles, MaxReverts, MaxFaults, MaxClock) :
                    old \in {"none", "moved", "reverted"}})

\* A failure can be injected while the budget lasts.
MayFail(fault) == fault = "none" \/ faults < cfg.faults
Spend(fault) == IF fault = "none" THEN faults ELSE faults + 1

\* What a thread does after an item: the next item, or the sleep before the
\* next test of the running flag.
NextItem(th) ==
    LET rest == Tail(th.todo)
    IN  [pc |-> IF rest = <<>> THEN "loop" ELSE "scan", todo |-> rest, sub |-> <<>>, cur |-> NoCur]

Bump(w, field) == [stats EXCEPT ![w][field] = @ + 1]

(***************************************************************************)
(* Control surface: start and stop of a watcher.                           *)
(***************************************************************************)
\* A start that zeroes the watcher's counters.
StartResets(w) ==
    /\ gui.pc = "idle"
    /\ w \in cfg.watchers
    /\ ~running[w]
    /\ \E i \in 1..cfg.loops :
        /\ loops[w][i].pc = "off"
        /\ \A j \in 1..(i - 1) : loops[w][j].pc # "off"
        /\ loops' = [loops EXCEPT ![w][i] = AtLoop]
    /\ running' = [running EXCEPT ![w] = TRUE]
    /\ stats' = [stats EXCEPT ![w] = [moved |-> 0, skipped |-> 0, errors |-> 0]]
    /\ UNCHANGED <<fs, now, cycles, oocLog, moveLog, looseLog, revertLog,
                   historyLog, gui, reverts, faults, appended, cfg>>

\* start_ooc / start_job / start_loose: a new thread is started whenever the
\* flag is down, whether or not an earlier thread is still asleep.
Start(w) ==
    /\ gui.pc = "idle"
    /\ w \in cfg.watchers
    /\ ~running[w]
    /\ \E i \in 1..cfg.loops :
        /\ loops[w][i].pc = "off"
        /\ \A j \in 1..(i - 1) : loops[w][j].pc # "off"
        /\ loops' = [loops EXCEPT ![w][i] = AtLoop]
    /\ running' = [running EXCEPT ![w] = TRUE]
    /\ UNCHANGED <<fs, now, stats, cycles, oocLog, moveLog, looseLog, revertLog,
                   historyLog, gui, reverts, faults, appended, cfg>>

\* stop_ooc / stop_job / stop_loose
Stop(w) ==
    /\ gui.pc = "idle"
    /\ running[w]
    /\ running' = [running EXCEPT ![w] = FALSE]
    /\ UNCHANGED <<fs, now, stats, loops, cycles, oocLog, moveLog, looseLog, revertLog,
                   historyLog, gui, reverts, faults, appended, cfg>>

(***************************************************************************)
(* Watcher 2: the job folder mover.                                        *)
(***************************************************************************)
MoveRow(job, importer, billing, trigger, action, comments) ==
    [job |-> job, importer |-> importer, billing |-> billing,
     trigger |-> trigger, action |-> action, comments |-> comments]

\* log_job_move that writes its row twice.
log_job_move_twice(log, row, fault) ==
    IF fault = "log" THEN log ELSE Append(Append(log, row), row)

\* log_job_move: the row is lost when the log cannot be written.
log_job_move(log, row, fault) == IF fault = "log" THEN log ELSE Append(log, row)

\* log_revert that leaves the ledger alone when it holds a row of the job.
log_revert_once(log, job, src, dest, t, fault) ==
    IF fault = "ledger" \/ \E n \in 1..Len(log) : log[n].job = job THEN log
    ELSE Append(log, [job |-> job, original |-> src, moved |-> dest, ts |-> t])

\* log_revert with the two paths in each other's column.
log_revert_swapped(log, job, src, dest, t, fault) ==
    IF fault = "ledger" THEN log
    ELSE Append(log, [job |-> job, original |-> dest, moved |-> src, ts |-> t])

\* log_revert that writes its row twice.
log_revert_twice(log, job, src, dest, t, fault) ==
    IF fault = "ledger" THEN log
    ELSE Append(Append(log, [job |-> job, original |-> src, moved |-> dest, ts |-> t]),
                [job |-> job, original |-> src, moved |-> dest, ts |-> t])

\* log_revert: the ledger row is lost when the ledger cannot be written.
log_revert(log, job, src, dest, t, fault) ==
    IF fault = "ledger" THEN log
    ELSE Append(log, [job |-> job, original |-> src, moved |-> dest, ts |-> t])

\* The top of the while loop: the thread ends when the flag is down,
\* otherwise it globs the trigger documents of the new poll cycle.
JobLoopTop(i) ==
    LET th == loops["job"][i]
    IN  /\ th.pc = "loop"
        /\ IF ~running["job"]
           THEN /\ loops' = [loops EXCEPT !["job"][i] = Off]
                /\ UNCHANGED cycles
           ELSE /\ cycles["job"] < cfg.cycles
                /\ cycles' = [cycles EXCEPT !["job"] = @ + 1]
                /\ \E s1 \in Orders(GlobTriggers(fs, TRIGGER_PATTERNS[1])),
                      s2 \in Orders(GlobTriggers(fs, TRIGGER_PATTERNS[2])) :
                       loops' = [loops EXCEPT !["job"][i] =
                                   [pc |-> IF s1 \o s2 = <<>> THEN "loop" ELSE "scan",
                                    todo |-> s1 \o s2, sub |-> <<>>, cur |-> NoCur]]
        /\ UNCHANGED <<fs, now, running, stats, oocLog, moveLog, looseLog, revertLog,
                       historyLog, gui, reverts, faults, appended, cfg>>

\* extract_text_from_pdf: the importer keys of the document at the path;
\* "empty" when the document cannot be opened or has no text.
extract_text_from_pdf(f, path, fault) ==
    IF fault = "extract" \/ NodeAt(f, path).kind # "file" \/ f[path].id \in NoText
    THEN [empty |-> TRUE, keys |-> {}]
    ELSE [empty |-> FALSE, keys |-> DocText[f[path].id]]

\* One trigger document of the cycle, up to the point where move_folder has
\* created the company folder and chosen the destination.
JobScan(i) ==
    LET th == loops["job"][i]
        trigger_path == Head(th.todo)
        job_path == DirName(trigger_path)
        job == BaseName(job_path)
        trigger == BaseName(trigger_path)
    IN  /\ th.pc = "scan"
        /\ \E t \in now..cfg.clock, fault \in {"none", "extract", "log", "perm", "other"} :
            /\ MayFail(fault)
            /\ faults' = Spend(fault)
            /\ IF Lower(job) = INBOX_SKIP \/ ~Exists(fs, job_path)
               THEN /\ loops' = [loops EXCEPT !["job"][i] = NextItem(th)]
                    /\ t = now /\ fault = "none"
                    /\ UNCHANGED <<fs, now, stats, moveLog>>
               ELSE LET text == extract_text_from_pdf(fs, trigger_path, fault)
                        importer == find_importer(text.keys)
                        billing_folder == MapGet(importer)
                        dest_parent == Join(BILLING_BASE, billing_folder)
                        mk == MakeDirs(fs, dest_parent)
                        dest == Join(dest_parent, job)
                    IN  IF text.empty
                        THEN /\ fault \in {"none", "extract", "log"}
                             /\ moveLog' = log_job_move(moveLog,
                                    MoveRow(job, "", <<>>, trigger, "SKIPPED",
                                            <<"Could not extract text from PDF">>), fault)
                             /\ stats' = Bump("job", "skipped")
                             /\ loops' = [loops EXCEPT !["job"][i] = NextItem(th)]
                             /\ t = now
                             /\ UNCHANGED <<fs, now>>
                        ELSE IF importer = "None"
                        THEN /\ fault \in {"none", "log"}
                             /\ moveLog' = log_job_move(moveLog,
                                    MoveRow(job, "", <<>>, trigger, "SKIPPED",
                                            <<"No matching importer found in PDF">>), fault)
                             /\ stats' = Bump("job", "skipped")
                             /\ loops' = [loops EXCEPT !["job"][i] = NextItem(th)]
                             /\ t = now
                             /\ UNCHANGED <<fs, now>>
                        ELSE IF billing_folder = <<>>
                        THEN /\ fault \in {"none", "log"}
                             /\ moveLog' = log_job_move(moveLog,
                                    MoveRow(job, importer, <<>>, trigger, "SKIPPED",
                                            <<"No billing folder mapping found">>), fault)
                             /\ stats' = Bump("job", "skipped")
                             /\ loops' = [loops EXCEPT !["job"][i] = NextItem(th)]
                             /\ t = now
                             /\ UNCHANGED <<fs, now>>
                        ELSE IF fault \in {"perm", "other"} \/ ~mk.ok
                        THEN \* os.makedirs raised inside move_folder
                             /\ moveLog' = log_job_move(moveLog,
                                    MoveRow(job, importer, billing_folder, trigger, "ERROR",
                                            IF fault = "perm" THEN <<"Permission denied">>
                                                              ELSE <<"Move failed">>), fault)
                             /\ stats' = Bump("job", "errors")
                             /\ loops' = [loops EXCEPT !["job"][i] = NextItem(th)]
                             /\ t = now
                             /\ UNCHANGED <<fs, now>>
                        ELSE /\ fault = "none"
                             /\ fs' = mk.fs
                             /\ now' = (IF Exists(mk.fs, dest) THEN t ELSE now)
                             /\ Exists(mk.fs, dest) \/ t = now
                             /\ loops' = [loops EXCEPT !["job"][i] =
                                   [th EXCEPT !.pc = "act",
                                      !.cur = [src |-> job_path,
                                               dst |-> IF Exists(mk.fs, dest)
                                                       THEN WithStamp(dest, t) ELSE dest,
                                               free |-> IF Exists(mk.fs, dest) THEN <<>> ELSE dest,
                                               tag |-> <<importer, billing_folder, trigger>>]]]
                             /\ UNCHANGED <<stats, moveLog>>
        /\ UNCHANGED <<running, cycles, oocLog, looseLog, revertLog, historyLog, gui,
                       reverts, appended, cfg>>

\* The rest of move_folder (shutil.move, log_revert) and the watcher's row
\* and counter for the outcome.
JobAct(i) ==
    LET th == loops["job"][i]
        c == th.cur
        job == BaseName(c.src)
    IN  /\ th.pc = "act"
        /\ \E t \in now..cfg.clock, fault \in {"none", "perm", "other", "ledger", "log"} :
            LET r == ShutilMove(fs, c.src, c.dst,
                                IF fault \in {"perm", "other"} THEN fault ELSE "none")
            IN  /\ MayFail(fault)
                /\ now' = (IF r.ok /\ fault # "ledger" THEN t ELSE now)
                /\ (r.ok /\ fault # "ledger") \/ t = now
                /\ fault = "ledger" => r.ok
                /\ faults' = Spend(fault)
                /\ fs' = r.fs
                /\ IF r.ok
                   THEN /\ revertLog' = log_revert(revertLog, job, c.src, c.dst, t, fault)
                        /\ appended' = IF fault = "ledger" THEN appended ELSE appended + 1
                        /\ moveLog' = log_job_move(moveLog,
                               MoveRow(job, c.tag[1], c.tag[2], c.tag[3], "MOVED",
                                       <<"Moved to", c.dst>>), fault)
                        /\ stats' = Bump("job", "moved")
                   ELSE /\ moveLog' = log_job_move(moveLog,
                               MoveRow(job, c.tag[1], c.tag[2], c.tag[3], "ERROR",
                                       IF r.err = "perm" THEN <<"Permission denied">>
                                                         ELSE <<"Move failed">>), fault)
                        /\ stats' = Bump("job", "errors")
                        /\ UNCHANGED <<revertLog, appended>>
                /\ loops' = [loops EXCEPT !["job"][i] = NextItem(th)]
        /\ UNCHANGED <<running, cycles, oocLog, looseLog, historyLog, gui, reverts, cfg>>

\* The statements of JobAct one at a time, so that what other threads and
\* the revert window do between them shows.  First shutil.move inside
\* move_folder; a failure ends the item with its ERROR row.
JobMove(i) ==
    LET th == loops["job"][i]
        c == th.cur
        job == BaseName(c.src)
    IN  /\ th.pc = "act"
        /\ \E fault \in {"none", "perm", "other", "log"} :
            LET r == ShutilMove(fs, c.src, c.dst,
                                IF fault \in {"perm", "other"} THEN fault ELSE "none")
            IN  /\ MayFail(fault)
                /\ fault = "log" => ~r.ok
                /\ faults' = Spend(fault)
                /\ fs' = r.fs
                /\ IF r.ok
                   THEN /\ loops' = [loops EXCEPT !["job"][i] = [th EXCEPT !.pc = "ledger"]]
                        /\ UNCHANGED <<moveLog, stats>>
                   ELSE /\ moveLog' = log_job_move(moveLog,
                               MoveRow(job, c.tag[1], c.tag[2], c.tag[3], "ERROR",
                                       IF r.err = "perm" THEN <<"Permission denied">>
                                                         ELSE <<"Move failed">>), fault)
                        /\ stats' = Bump("job", "errors")
                        /\ loops' = [loops EXCEPT !["job"][i] = NextItem(th)]
        /\ UNCHANGED <<now, running, cycles, oocLog, looseLog, revertLog, historyLog, gui,
                       reverts, appended, cfg>>

\* Then log_revert, the last statement of move_folder before its return.
JobLedger(i) ==
    LET th == loops["job"][i]
        c == th.cur
    IN  /\ th.pc = "ledger"
        /\ \E t \in now..cfg.clock, fault \in {"none", "ledger"} :
            /\ MayFail(fault)
            /\ faults' = Spend(fault)
            /\ now' = (IF fault = "none" THEN t ELSE now)
            /\ fault = "none" \/ t = now
            /\ revertLog' = log_revert(revertLog, BaseName(c.src), c.src, c.dst, t, fault)
            /\ appended' = IF fault = "ledger" THEN appended ELSE appended + 1
            /\ loops' = [loops EXCEPT !["job"][i] = [th EXCEPT !.pc = "row"]]
        /\ UNCHANGED <<fs, running, stats, cycles, oocLog, moveLog, looseLog, historyLog,
                       gui, reverts, cfg>>

\* Then, back in the watcher, the MOVED row and the counter.
JobRow(i) ==
    LET th == loops["job"][i]
        c == th.cur
    IN  /\ th.pc = "row"
        /\ \E fault \in {"none", "log"} :
            /\ MayFail(fault)
            /\ faults' = Spend(fault)
            /\ moveLog' = log_job_move(moveLog,
                   MoveRow(BaseName(c.src), c.tag[1], c.tag[2], c.tag[3], "MOVED",
                           <<"Moved to", c.dst>>), fault)
            /\ stats' = Bump("job", "moved")
            /\ loops' = [loops EXCEPT !["job"][i] = NextItem(th)]
        /\ UNCHANGED <<fs, now, running, cycles, oocLog, looseLog, revertLog, historyLog,
                       gui, reverts, appended, cfg>>

(***************************************************************************)
(* Watcher 1: the OOC file uploader.                                       *)
(***************************************************************************)
OocRow(filename, job_no, dest, status) ==
    [filename |-> filename, job |-> job_no, dest |-> dest, status |-> status]

\* log_ooc_upload: the row is lost when the log cannot be written.
log_ooc_upload(log, row, fault) == IF fault = "log" THEN log ELSE Append(log, row)

\* The top of the while loop: the thread ends when the flag is down,
\* otherwise it lists the inbox; a failing listing costs the cycle.
OocLoopTop(i) ==
    LET th == loops["ooc"][i]
    IN  /\ th.pc = "loop"
        /\ IF ~running["ooc"]
           THEN /\ loops' = [loops EXCEPT !["ooc"][i] = Off]
                /\ UNCHANGED <<cycles, stats, faults>>
           ELSE /\ cycles["ooc"] < cfg.cycles
                /\ cycles' = [cycles EXCEPT !["ooc"] = @ + 1]
                /\ \E fault \in {"none", "list"} :
                    /\ MayFail(fault)
                    /\ faults' = Spend(fault)
                    /\ IF fault = "list"
                       THEN /\ stats' = Bump("ooc", "errors")
                            /\ UNCHANGED loops
                       ELSE /\ UNCHANGED stats
                            /\ \E s \in Orders(ListDir(fs, UPLOAD_OOC)) :
                                loops' = [loops EXCEPT !["ooc"][i] =
                                            [pc |-> IF s = <<>> THEN "loop" ELSE "scan",
                                             todo |-> s, sub |-> <<>>, cur |-> NoCur]]
        /\ UNCHANGED <<fs, now, running, oocLog, moveLog, looseLog, revertLog,
                       historyLog, gui, reverts, appended, cfg>>

\* One inbox entry, up to the point where the destination is chosen.
OocScan(i) ==
    LET th == loops["ooc"][i]
        filename == Head(th.todo)
        file_path == Join(UPLOAD_OOC, filename)
        job_no == IrJobNo(filename)
        exact == Join(SOURCE_BASE, job_no)
    IN  /\ th.pc = "scan"
        /\ \E fault \in {"none", "list", "log"} :
            /\ MayFail(fault)
            /\ faults' = Spend(fault)
            /\ IF IsDir(fs, file_path) \/ ~EndsWith(Lower(filename), PdfExt)
               THEN /\ fault = "none"
                    /\ loops' = [loops EXCEPT !["ooc"][i] = NextItem(th)]
                    /\ UNCHANGED <<stats, oocLog>>
               ELSE IF job_no = <<>>
               THEN /\ fault = "none"
                    /\ stats' = Bump("ooc", "skipped")
                    /\ loops' = [loops EXCEPT !["ooc"][i] = NextItem(th)]
                    /\ UNCHANGED oocLog
               ELSE IF ~Exists(fs, exact) /\ fault = "list"
               THEN \* os.listdir(SOURCE_BASE) raised: the cycle is abandoned
                    /\ stats' = Bump("ooc", "errors")
                    /\ loops' = [loops EXCEPT !["ooc"][i] = AtLoop]
                    /\ UNCHANGED oocLog
               ELSE IF ~Exists(fs, exact) /\ MatchingDirs(fs, SOURCE_BASE, job_no) = {}
               THEN /\ fault \in {"none", "log"}
                    /\ oocLog' = log_ooc_upload(oocLog,
                          OocRow(filename, job_no, <<>>, "ERROR: Folder not found"), fault)
                    /\ stats' = Bump("ooc", "errors")
                    /\ loops' = [loops EXCEPT !["ooc"][i] = NextItem(th)]
               ELSE \E job_folder \in
                        IF Exists(fs, exact) THEN {exact}
                        ELSE {Join(SOURCE_BASE, n) : n \in MatchingDirs(fs, SOURCE_BASE, job_no)} :
                    LET dest_path == unique_filename(fs, Join(job_folder, filename))
                    IN  /\ fault = "none"
                        /\ loops' = [loops EXCEPT !["ooc"][i] =
                              [th EXCEPT !.pc = "act",
                                 !.cur = [src |-> file_path, dst |-> dest_path,
                                          free |-> dest_path,
                                          tag |-> <<filename, job_no>>]]]
                        /\ UNCHANGED <<stats, oocLog>>
        /\ UNCHANGED <<fs, now, running, cycles, moveLog, looseLog, revertLog, historyLog,
                       gui, reverts, appended, cfg>>

\* The same step with a log_ooc_upload that lets its failure out: the failure
\* reaches the handler of the whole cycle, which counts an error and sleeps.
OocActLogFatal(i) ==
    LET th == loops["ooc"][i]
        c == th.cur
    IN  /\ th.pc = "act"
        /\ \E fault \in {"none", "perm", "other", "log"} :
            LET r == ShutilMove(fs, c.src, c.dst,
                                IF fault \in {"perm", "other"} THEN fault ELSE "none")
            IN  /\ MayFail(fault)
                /\ faults' = Spend(fault)
                /\ fs' = r.fs
                /\ oocLog' = log_ooc_upload(oocLog,
                       OocRow(c.tag[1], c.tag[2], IF r.ok THEN c.dst ELSE <<>>,
                              IF r.ok THEN "MOVED" ELSE "ERROR: move failed"), fault)
                /\ stats' = Bump("ooc", IF r.ok /\ fault # "log" THEN "moved" ELSE "errors")
                /\ loops' = [loops EXCEPT !["ooc"][i] =
                                IF fault = "log" THEN AtLoop ELSE NextItem(th)]
        /\ UNCHANGED <<now, running, cycles, moveLog, looseLog, revertLog, historyLog, gui,
                       reverts, appended, cfg>>

\* shutil.move of the inbox file, and the row and counter for the outcome.
OocAct(i) ==
    LET th == loops["ooc"][i]
        c == th.cur
    IN  /\ th.pc = "act"
        /\ \E fault \in {"none", "perm", "other", "log"} :
            LET r == ShutilMove(fs, c.src, c.dst,
                                IF fault \in {"perm", "other"} THEN fault ELSE "none")
            IN  /\ MayFail(fault)
                /\ faults' = Spend(fault)
                /\ fs' = r.fs
                /\ IF r.ok
                   THEN /\ oocLog' = log_ooc_upload(oocLog,
                              OocRow(c.tag[1], c.tag[2], c.dst, "MOVED"), fault)
                        /\ stats' = Bump("ooc", "moved")
                   ELSE /\ oocLog' = log_ooc_upload(oocLog,
                              OocRow(c.tag[1], c.tag[2], <<>>, "ERROR: move failed"), fault)
                        /\ stats' = Bump("ooc", "errors")
                /\ loops' = [loops EXCEPT !["ooc"][i] = NextItem(th)]
        /\ UNCHANGED <<now, running, cycles, moveLog, looseLog, revertLog, historyLog, gui,
                       reverts, appended, cfg>>

(***************************************************************************)
(* Watcher 3: the loose file organizer.                                    *)
(***************************************************************************)
\* A skip list without its last two entries.
SKIP_FOLDERS_short ==
    { <<"B","I","L","L"," ","R","E","C","E","V","I","N","G"," ","C","O","P","Y">>,
      <<"B","H","A","R","T","I"," ","A","I","R","T","E","L"," "," ","A","I","F","T","A">>,
      <<"A","u","t","o","m","a","t","i","o","n"," ","L","o","g","s">> }

SKIP_FOLDERS ==
    { <<"B","I","L","L"," ","R","E","C","E","V","I","N","G"," ","C","O","P","Y">>,
      <<"B","H","A","R","T","I"," ","A","I","R","T","E","L"," "," ","A","I","F","T","A">>,
      <<"A","u","t","o","m","a","t","i","o","n"," ","L","o","g","s">>,
      <<"A","U","T","O","_","S","C","R","I","P","T">>,
      <<"F","i","l","e","_","O","r","g","a","n","i","z","a","t","i","o","n","_","L","o","g","s">> }

LooseRow(company, filename, source, dest, status) ==
    [company |-> company, filename |-> filename, source |-> source,
     dest |-> dest, status |-> status]

\* A log_loose_file that records the failures only.
log_loose_file_failures(log, row, fault) ==
    IF fault = "log" \/ row.status = "MOVED" THEN log ELSE Append(log, row)

\* log_loose_file: the row is lost when the log cannot be written.
log_loose_file(log, row, fault) == IF fault = "log" THEN log ELSE Append(log, row)

\* The loop of a loose-file thread after an entry of a company folder: the
\* next entry, the next company folder, or the sleep.
NextLoose(th) ==
    LET rest == Tail(th.sub)
    IN  IF rest # <<>> THEN [pc |-> "item", todo |-> th.todo, sub |-> rest, cur |-> NoCur]
        ELSE IF Tail(th.todo) # <<>>
             THEN [pc |-> "scan", todo |-> Tail(th.todo), sub |-> <<>>, cur |-> NoCur]
             ELSE AtLoop

\* The top of the while loop: the thread ends when the flag is down,
\* otherwise it lists the billing base; a failing listing costs the cycle.
LooseLoopTop(i) ==
    LET th == loops["loose"][i]
    IN  /\ th.pc = "loop"
        /\ IF ~running["loose"]
           THEN /\ loops' = [loops EXCEPT !["loose"][i] = Off]
                /\ UNCHANGED <<cycles, stats, faults>>
           ELSE /\ cycles["loose"] < cfg.cycles
                /\ cycles' = [cycles EXCEPT !["loose"] = @ + 1]
                /\ \E fault \in {"none", "list"} :
                    /\ MayFail(fault)
                    /\ faults' = Spend(fault)
                    /\ IF fault = "list"
                       THEN /\ stats' = Bump("loose", "errors")
                            /\ UNCHANGED loops
                       ELSE /\ UNCHANGED stats
                            /\ \E s \in Orders(ListDir(fs, BILLING_BASE)) :
                                loops' = [loops EXCEPT !["loose"][i] =
                                            [pc |-> IF s = <<>> THEN "loop" ELSE "scan",
                                             todo |-> s, sub |-> <<>>, cur |-> NoCur]]
        /\ UNCHANGED <<fs, now, running, oocLog, moveLog, looseLog, revertLog,
                       historyLog, gui, reverts, appended, cfg>>

\* The next company folder: skipped when it is no directory or is excluded,
\* else its entries are listed; a failing listing costs the cycle.
LooseCompany(i) ==
    LET th == loops["loose"][i]
        company_folder == Head(th.todo)
        company_path == Join(BILLING_BASE, company_folder)
        onward == IF Tail(th.todo) # <<>>
                  THEN [pc |-> "scan", todo |-> Tail(th.todo), sub |-> <<>>, cur |-> NoCur]
                  ELSE AtLoop
    IN  /\ th.pc = "scan"
        /\ \E fault \in {"none", "list"} :
            /\ MayFail(fault)
            /\ faults' = Spend(fault)
            /\ IF ~IsDir(fs, company_path) \/ company_folder \in SKIP_FOLDERS
               THEN /\ fault = "none"
                    /\ loops' = [loops EXCEPT !["loose"][i] = onward]
                    /\ UNCHANGED stats
               ELSE IF fault = "list"
               THEN /\ stats' = Bump("loose", "errors")
                    /\ loops' = [loops EXCEPT !["loose"][i] = AtLoop]
               ELSE /\ UNCHANGED stats
                    /\ \E s \in Orders(ListDir(fs, company_path)) :
                        loops' = [loops EXCEPT !["loose"][i] =
                                    IF s = <<>> THEN onward
                                    ELSE [pc |-> "item", todo |-> th.todo, sub |-> s,
                                          cur |-> NoCur]]
        /\ UNCHANGED <<fs, now, running, cycles, oocLog, moveLog, looseLog, revertLog,
                       historyLog, gui, reverts, appended, cfg>>

\* One entry of a company folder, up to the point where the destination is
\* chosen.  A failing listing inside find_matching_job_folder is caught
\* there and reads as no match.
LooseScan(i) ==
    LET th == loops["loose"][i]
        company_folder == Head(th.todo)
        company_path == Join(BILLING_BASE, company_folder)
        item == Head(th.sub)
        item_path == Join(company_path, item)
        job_number == extract_job_number(item)
    IN  /\ th.pc = "item"
        /\ \E fault \in {"none", "list"} :
            /\ MayFail(fault)
            /\ faults' = Spend(fault)
            /\ IF \/ IsDir(fs, item_path)
                  \/ Lower(SplitExt(item).ext) \notin MONITORED_EXTENSIONS
                  \/ job_number = <<>>
               THEN /\ fault = "none"
                    /\ loops' = [loops EXCEPT !["loose"][i] = NextLoose(th)]
               ELSE IF fault = "list" \/ MatchingDirs(fs, company_path, job_number) = {}
               THEN loops' = [loops EXCEPT !["loose"][i] = NextLoose(th)]
               ELSE \E n \in MatchingDirs(fs, company_path, job_number) :
                    LET dest_path == unique_filename(fs, Join(Join(company_path, n), item))
                    IN  loops' = [loops EXCEPT !["loose"][i] =
                              [th EXCEPT !.pc = "act",
                                 !.cur = [src |-> item_path, dst |-> dest_path,
                                          free |-> dest_path,
                                          tag |-> <<company_folder, item>>]]]
        /\ UNCHANGED <<fs, now, running, stats, cycles, oocLog, moveLog, looseLog, revertLog,
                       historyLog, gui, reverts, appended, cfg>>

\* shutil.move of the stray file, and the row and counter for the outcome.
LooseAct(i) ==
    LET th == loops["loose"][i]
        c == th.cur
    IN  /\ th.pc = "act"
        /\ \E fault \in {"none", "perm", "other", "log"} :
            LET r == ShutilMove(fs, c.src, c.dst,
                                IF fault \in {"perm", "other"} THEN fault ELSE "none")
            IN  /\ MayFail(fault)
                /\ faults' = Spend(fault)
                /\ fs' = r.fs
                /\ IF r.ok
                   THEN /\ looseLog' = log_loose_file(looseLog,
                              LooseRow(c.tag[1], c.tag[2], c.src, c.dst, "MOVED"), fault)
                        /\ stats' = Bump("loose", "moved")
                   ELSE /\ looseLog' = log_loose_file(looseLog,
                              LooseRow(c.tag[1], c.tag[2], c.src, <<>>, "ERROR"), fault)
                        /\ stats' = Bump("loose", "errors")
                /\ loops' = [loops EXCEPT !["loose"][i] = NextLoose(th)]
        /\ UNCHANGED <<now, running, cycles, oocLog, moveLog, revertLog, historyLog, gui,
                       reverts, appended, cfg>>

(***************************************************************************)
(* The revert manager: revert_job and delete_logs.  Both run on the thread *)
(* of the control surface, so neither starts while the other is under way. *)
(***************************************************************************)
Unknown == << <<"U","n","k","n","o","w","n">> >>

HistoryRow(job, from, to, status) ==
    [job |-> job, from |-> from, to |-> to, status |-> status]

\* log_revert_history that records the successful reverts only.
log_revert_history_successes(log, row, fault) ==
    IF fault = "history" \/ row.status # "SUCCESS" THEN log ELSE Append(log, row)

\* log_revert_history that writes its row twice.
log_revert_history_twice(log, row, fault) ==
    IF fault = "history" THEN log ELSE Append(Append(log, row), row)

\* A log_revert_history that leaves the reason of a failure out.
log_revert_history_bare(log, row, fault) ==
    IF fault = "history" THEN log
    ELSE Append(log, [row EXCEPT !.status = IF @ = "SUCCESS" THEN @ ELSE "FAILED"])

\* log_revert_history: the row is lost when the history log cannot be written.
log_revert_history(log, row, fault) == IF fault = "history" THEN log ELSE Append(log, row)

\* The job numbers revert_job can be called with: those of the ledger rows
\* (the table of the revert window lists them), and the job folder's own
\* number while the ledger holds no row at all (a key never promoted, or one
\* whose rows were deleted since the table was loaded).
RevertKeys ==
    IF revertLog = <<>> THEN {JobName} ELSE {revertLog[n].job : n \in 1..Len(revertLog)}

\* The matches cut down to the first: the row revert_job would pick if it
\* took matches[0].
MatchesFirst(rows, job_no) ==
    LET all == SelectSeq(rows, LAMBDA r : r.job = job_no)
    IN  IF all = <<>> THEN <<>> ELSE <<all[1]>>

\* Find all matches for this job number
Matches(rows, job_no) == SelectSeq(rows, LAMBDA r : r.job = job_no)

\* revert_job up to the move: the ledger is read, the last matching row is
\* selected, and the three existence tests choose the destination.
RevertCheck(job_no) ==
    /\ gui.pc = "idle"
    /\ reverts < cfg.reverts
    /\ reverts' = reverts + 1
    /\ \E t \in now..cfg.clock, fault \in {"none", "perm", "other", "history"} :
        LET matches == Matches(revertLog, job_no)
            last == matches[Len(matches)]
            original == last.original
            moved == last.moved
            taken == Exists(fs, original)
            stamped == /\ fault \notin {"perm", "other"} /\ matches # <<>>
                       /\ Exists(fs, moved) /\ Exists(fs, DirName(original)) /\ taken
        IN  /\ MayFail(fault)
            /\ now' = (IF stamped THEN t ELSE now)
            /\ stamped \/ t = now
            /\ faults' = Spend(fault)
            /\ IF fault \in {"perm", "other"}
               THEN \* the ledger could not be opened or read
                    /\ historyLog' = log_revert_history(historyLog,
                          HistoryRow(job_no, Unknown, Unknown,
                                     IF fault = "perm" THEN "FAILED: Permission denied"
                                                       ELSE "FAILED: error"), fault)
                    /\ gui' = GuiIdle(job_no, IF fault = "perm" THEN "Permission denied"
                                                                ELSE "Error reverting")
               ELSE IF matches = <<>>
               THEN /\ fault = "none"
                    /\ gui' = GuiIdle(job_no, "No revert entry found")
                    /\ UNCHANGED historyLog
               ELSE IF ~Exists(fs, moved)
               THEN /\ historyLog' = log_revert_history(historyLog,
                          HistoryRow(job_no, moved, original,
                                     "FAILED: Folder not at moved location"), fault)
                    /\ gui' = GuiIdle(job_no, "Folder no longer exists")
               ELSE IF ~Exists(fs, DirName(original))
               THEN /\ historyLog' = log_revert_history(historyLog,
                          HistoryRow(job_no, moved, original,
                                     "FAILED: Original directory missing"), fault)
                    /\ gui' = GuiIdle(job_no, "Original directory doesn't exist")
               ELSE /\ fault = "none"
                    /\ gui' = [pc |-> "revert", job |-> job_no,
                               cur |-> [src |-> moved,
                                        dst |-> IF taken THEN WithStamp(original, t) ELSE original,
                                        free |-> IF taken THEN <<>> ELSE original,
                                        tag |-> <<job_no, original>>],
                               rows |-> <<>>, result |-> gui.result]
                    /\ UNCHANGED historyLog
    /\ UNCHANGED <<fs, running, stats, loops, cycles, oocLog, moveLog, looseLog,
                   revertLog, appended, cfg>>

\* revert_job that strikes the row it reverted out of the ledger.
RevertActStrikesRow ==
    /\ gui.pc = "revert"
    /\ \E fault \in {"none", "perm", "other", "history"} :
        LET c == gui.cur
            r == ShutilMove(fs, c.src, c.dst,
                            IF fault \in {"perm", "other"} THEN fault ELSE "none")
        IN  /\ MayFail(fault)
            /\ faults' = Spend(fault)
            /\ fs' = r.fs
            /\ IF r.ok
               THEN /\ historyLog' = log_revert_history(historyLog,
                          HistoryRow(c.tag[1], c.src, c.dst, "SUCCESS"), fault)
                    /\ revertLog' = SelectSeq(revertLog, LAMBDA row : row.moved # c.src)
                    /\ gui' = GuiIdle(gui.job, "Reverted successfully")
               ELSE /\ historyLog' = log_revert_history(historyLog,
                          HistoryRow(c.tag[1], Unknown, Unknown,
                                     IF r.err = "perm" THEN "FAILED: Permission denied"
                                                       ELSE "FAILED: error"), fault)
                    /\ UNCHANGED revertLog
                    /\ gui' = GuiIdle(gui.job, IF r.err = "perm" THEN "Permission denied"
                                                                 ELSE "Error reverting")
    /\ UNCHANGED <<now, running, stats, loops, cycles, oocLog, moveLog, looseLog,
                   reverts, appended, cfg>>

\* revert_job from the move on: shutil.move, the history row, the outcome.
RevertAct ==
    /\ gui.pc = "revert"
    /\ \E fault \in {"none", "perm", "other", "history"} :
        LET c == gui.cur
            r == ShutilMove(fs, c.src, c.dst,
                            IF fault \in {"perm", "other"} THEN fault ELSE "none")
        IN  /\ MayFail(fault)
            /\ faults' = Spend(fault)
            /\ fs' = r.fs
            /\ IF r.ok
               THEN /\ historyLog' = log_revert_history(historyLog,
                          HistoryRow(c.tag[1], c.src, c.dst, "SUCCESS"), fault)
                    /\ gui' = GuiIdle(gui.job, "Reverted successfully")
               ELSE /\ historyLog' = log_revert_history(historyLog,
                          HistoryRow(c.tag[1], Unknown, Unknown,
                                     IF r.err = "perm" THEN "FAILED: Permission denied"
                                                       ELSE "FAILED: error"), fault)
                    /\ gui' = GuiIdle(gui.job, IF r.err = "perm" THEN "Permission denied"
                                                                 ELSE "Error reverting")
    /\ UNCHANGED <<now, running, stats, loops, cycles, oocLog, moveLog, looseLog,
                   revertLog, reverts, appended, cfg>>

\* A path as text: its names with a backslash between them.
RECURSIVE PathText(_)
PathText(p) ==
    IF p = <<>> THEN <<>>
    ELSE IF Len(p) = 1 THEN p[1]
    ELSE PathText(SubSeq(p, 1, Len(p) - 1)) \o <<"\\">> \o p[Len(p)]

\* The string revert_job returns: the message of the outcome with the job
\* number or the path it names put in.
revert_message(result, job_no, where) ==
    CASE result = "No revert entry found" ->
            <<"N","o"," ","r","e","v","e","r","t"," ","e","n","t","r","y"," ","f","o","u","n","d"," ","f","o","r"," ">> \o job_no \o <<".">>
      [] result = "Folder no longer exists" ->
            <<"F","o","l","d","e","r"," ","n","o"," ","l","o","n","g","e","r"," ","e","x","i","s","t","s"," ","a","t",":"," ">> \o PathText(where)
      [] result = "Original directory doesn't exist" ->
            <<"O","r","i","g","i","n","a","l"," ","d","i","r","e","c","t","o","r","y"," ","d","o","e","s","n","'","t"," ","e","x","i","s","t",":"," ">> \o PathText(where)
      [] result = "Reverted successfully" ->
            <<"R","e","v","e","r","t","e","d"," ","s","u","c","c","e","s","s","f","u","l","l","y"," ","t","o"," ">> \o PathText(where)
      [] result = "Permission denied" ->
            <<"P","e","r","m","i","s","s","i","o","n"," ","d","e","n","i","e","d",":"," ">> \o PathText(where)
      [] OTHER ->
            <<"E","r","r","o","r"," ","r","e","v","e","r","t","i","n","g",":"," ">> \o PathText(where)

\* do_revert counts a result as a success when its text, in lower case,
\* contains the marker.
SUCCESS_MARKER == <<"s","u","c","c","e","s","s","f","u","l","l","y">>
counts_as_success(text) == Contains(Lower(text), SUCCESS_MARKER)

\* delete_logs, first half: the ledger is read and the rows of the selected
\* job numbers are dropped from the copy held in memory.
DeleteRead(jobs_to_delete) ==
    /\ gui.pc = "idle"
    /\ jobs_to_delete # {}
    /\ gui' = [pc |-> "delete", job |-> gui.job, cur |-> NoCur,
               rows |-> SelectSeq(revertLog, LAMBDA r : r.job \notin jobs_to_delete),
               result |-> gui.result]
    /\ UNCHANGED <<fs, now, running, stats, loops, cycles, oocLog, moveLog, looseLog,
                   revertLog, historyLog, reverts, faults, appended, cfg>>

\* delete_logs, second half: the ledger file is rewritten from that copy.
DeleteWrite ==
    /\ gui.pc = "delete"
    /\ revertLog' = gui.rows
    /\ gui' = GuiIdle(gui.job, gui.result)
    /\ UNCHANGED <<fs, now, running, stats, loops, cycles, oocLog, moveLog, looseLog,
                   historyLog, reverts, faults, appended, cfg>>

(***************************************************************************)
(* The system.  Spec is the job mover with revert_job; SpecAll is the three *)
(* watchers with revert_job and delete_logs.                               *)
(***************************************************************************)
Control ==
    \/ \E w \in Watchers : Start(w)
    \/ \E w \in Watchers : Stop(w)

Uploader ==
    \/ \E i \in Slots : OocLoopTop(i)
    \/ \E i \in Slots : OocScan(i)
    \/ \E i \in Slots : OocAct(i)

Mover ==
    \/ \E i \in Slots : JobLoopTop(i)
    \/ \E i \in Slots : JobScan(i)
    \/ \E i \in Slots : JobAct(i)

MoverSteps ==
    \/ \E i \in Slots : JobLoopTop(i)
    \/ \E i \in Slots : JobScan(i)
    \/ \E i \in Slots : JobMove(i)
    \/ \E i \in Slots : JobLedger(i)
    \/ \E i \in Slots : JobRow(i)

Organizer ==
    \/ \E i \in Slots : LooseLoopTop(i)
    \/ \E i \in Slots : LooseCompany(i)
    \/ \E i \in Slots : LooseScan(i)
    \/ \E i \in Slots : LooseAct(i)

Reverter ==
    \/ \E k \in RevertKeys : RevertCheck(k)
    \/ RevertAct

Manager ==
    \/ Reverter
    \/ \E S \in SUBSET {revertLog[n].job : n \in 1..Len(revertLog)} : DeleteRead(S)
    \/ DeleteWrite

Next == Control \/ Mover \/ Reverter

Spec == Init /\ [][Next]_vars

InitAll == Start0({Scenario("none", Watchers, 1, MaxCycles, MaxReverts, 0, MaxClock)})

NextAll == Control \/ Uploader \/ Mover \/ Organizer \/ Manager

SpecAll == InitAll /\ [][NextAll]_vars

\* The working area is where job folders are put from outside: in scenario
\* "twin" one more job folder of the same name, with its trigger document,
\* is put there once the first has left.
Arrive ==
    /\ cfg.old = "twin"
    /\ ~Exists(fs, JobPath)
    /\ \A p \in DOMAIN fs : fs[p].id # "G"
    /\ fs' = [p \in DOMAIN fs \cup {JobPath, Join(JobPath, TrigSpace)} |->
                 IF p = JobPath THEN Dir("G")
                 ELSE IF p = Join(JobPath, TrigSpace) THEN File("T3")
                 ELSE fs[p]]
    /\ UNCHANGED <<now, running, stats, loops, cycles, oocLog, moveLog, looseLog, revertLog,
                   historyLog, gui, reverts, faults, appended, cfg>>

\* The OOC uploader alone, with failures, over each inbox scenario, for one
\* poll cycle more than the bound.
InitOoc ==
    Start0({Scenario(old, {"ooc"}, 1, MaxCycles + 1, 0, MaxFaults, MaxClock) :
                old \in {"digits", "stuck", "other"}})
NextOoc == Control \/ Uploader
SpecOoc == InitOoc /\ [][NextOoc]_vars

\* The loose file organizer alone, with failures, over each scenario of the
\* billing base, for one poll cycle more than the bound.
InitLoose ==
    Start0({Scenario(old, {"loose"}, 1, MaxCycles + 1, 0, MaxFaults, MaxClock) :
                old \in {"strays", "kept"}})
NextLooseOnly == Control \/ Organizer
SpecLoose == InitLoose /\ [][NextLooseOnly]_vars

\* Each watcher on its own, with failures, started and stopped at will: a
\* watcher started again while its earlier thread is still asleep runs two
\* threads.
InitLife ==
    Start0({Scenario("stuck", {"ooc"}, MaxLoops, MaxCycles, 0, MaxFaults, MaxClock),
            Scenario("none", {"job"}, MaxLoops, MaxCycles, 0, MaxFaults, MaxClock),
            Scenario("strays", {"loose"}, MaxLoops, MaxCycles, 0, MaxFaults, MaxClock)})
NextLife == Control \/ Uploader \/ Mover \/ Organizer
SpecLife == InitLife /\ [][NextLife]_vars

\* The OOC uploader alone, without failures, over every set of names taken
\* in the job folder.
InitNames ==
    Start0({[taken |-> S] @@ Scenario("names", {"ooc"}, 1, MaxCycles, 0, 0, MaxClock) :
                S \in SUBSET (0..MaxSuffix)})
SpecNames == InitNames /\ [][NextOoc]_vars

\* The loose file organizer alone, without failures, over every name of
\* the stray document.
\* The uploader alone over every choice of folders for the second job number.
InitPick ==
    Start0({[dirs |-> S] @@ Scenario("pick", {"ooc"}, 1, MaxCycles, 0, MaxFaults, MaxClock) :
               S \in SUBSET PickDirs})
SpecPick == InitPick /\ [][NextOoc]_vars

InitKeys ==
    Start0({[stray |-> n] @@ Scenario("keys", {"loose"}, 1, MaxCycles, 0, 0, MaxClock) :
                n \in KeyNames})
SpecKeys == InitKeys /\ [][NextLooseOnly]_vars

\* The job mover with revert_job called from outside the revert window, the
\* job number written in upper or in lower case, over a ledger row that can
\* be reverted and one whose original directory is gone.
RevertTyped ==
    \/ \E k \in {JobName, Lower(JobName)} : RevertCheck(k)
    \/ RevertAct
InitUndo ==
    Start0({Scenario(old, {"job"}, 1, MaxCycles, MaxReverts, MaxFaults, MaxClock) :
                old \in {"moved", "orphan"}})
NextUndo == Control \/ Mover \/ RevertTyped
SpecUndo == InitUndo /\ [][NextUndo]_vars

\* The job mover and revert_job, without failures, while a second job folder
\* of the same name arrives in the working area, for one revert more than
\* the bound.
InitReturn ==
    Start0({Scenario("twin", {"job"}, 1, MaxCycles, MaxReverts + 1, 0, MaxClock)})
NextReturn == Control \/ Mover \/ Reverter \/ Arrive
SpecReturn == InitReturn /\ [][NextReturn]_vars

\* The job mover and revert_job, with failures, over the ledger row of a
\* job folder named with the word the revert window looks for.
InitMarker ==
    Start0({Scenario("marker", {"job"}, 1, MaxCycles, MaxReverts, MaxFaults, MaxClock)})
SpecMarker == InitMarker /\ [][Next]_vars

\* The job mover, with failures, while the operator deletes the ledger rows
\* of another job in the revert window.
InitAdmin == Start0({Scenario("ledger", {"job"}, 1, MaxCycles, 0, MaxFaults, MaxClock)})
Deleter == DeleteRead({OtherJob}) \/ DeleteWrite
NextAdmin == Control \/ Mover \/ Deleter
SpecAdmin == InitAdmin /\ [][NextAdmin]_vars

\* The uploader over an inbox file without job folder, and the job mover
\* over trigger documents it cannot classify, each over two poll cycles.
InitStay ==
    Start0({Scenario("stuck", {"ooc"}, 1, MaxCycles + 1, 0, MaxFaults, MaxClock),
            Scenario("blank", {"job"}, 1, MaxCycles + 1, 0, MaxFaults, MaxClock)})
NextStay == Control \/ Uploader \/ Mover
SpecStay == InitStay /\ [][NextStay]_vars

\* The same with revert_job, also for the job number whose row is deleted.
InitPurge == Start0({Scenario("ledger", {"job"}, 1, MaxCycles, MaxReverts, 0, MaxClock)})
NextPurge == Control \/ Mover \/ Deleter \/ Reverter \/ RevertCheck(OtherJob)
SpecPurge == InitPurge /\ [][NextPurge]_vars

\* The job mover started and stopped at will, with the scheduling of its
\* threads: each watcher thread is a thread of the interpreter that is run
\* again and again, and its sleep ends; nothing obliges the operator to
\* press a button.
InitRestart ==
    Start0({Scenario("none", {"job"}, MaxLoops, MaxCycles, 0, MaxFaults, MaxClock)})
NextRestart == Control \/ Mover
\* The job mover, with failures, over two poll cycles of a working area
\* that holds trigger documents it cannot classify.
InitSkip ==
    Start0({Scenario("blank", {"job"}, 1, MaxCycles + 1, 0, MaxFaults, MaxClock)})
SpecSkip == InitSkip /\ [][NextRestart]_vars

\* The job mover statement by statement and revert_job, without failures,
\* over two poll cycles and two reverts, with and without a ledger row of an
\* earlier session.
InitRounds ==
    Start0({Scenario(old, {"job"}, 1, MaxCycles + 1, MaxReverts + 1, 0, MaxClock) :
               old \in {"none", "reverted"}})
NextRounds == Control \/ MoverSteps \/ Reverter
SpecRounds == InitRounds /\ [][NextRounds]_vars

MoverFairness ==
    \A i \in Slots : WF_vars(JobLoopTop(i) \/ JobScan(i) \/ JobAct(i))
SpecRestart == InitRestart /\ [][NextRestart]_vars /\ MoverFairness

\* The uploader's thread gets its turn as well.  A thread of the uploader can
\* take a step when it is inside a cycle, or at the top of its loop with the
\* flag down or a cycle to begin; weak fairness says that a thread that can
\* take a step for ever does take one again and again.
UploaderReady(i) ==
    LET th == loops["ooc"][i]
    IN  \/ th.pc \in {"scan", "act"}
        \/ th.pc = "loop" /\ (~running["ooc"] \/ cycles["ooc"] < cfg.cycles)
UploaderStep(i) == OocLoopTop(i) \/ OocScan(i) \/ OocAct(i)
UploaderFairness ==
    \A i \in Slots : []<>(~UploaderReady(i)) \/ []<><<UploaderStep(i)>>_vars

\* The uploader and the job mover side by side, both threads getting their
\* turn, without failures, over two poll cycles each.
InitFlow == Start0({Scenario("none", {"ooc", "job"}, 1, MaxCycles + 1, 0, 0, 0)})
NextFlow == Control \/ Uploader \/ Mover
SpecFlow == InitFlow /\ [][NextFlow]_vars /\ MoverFairness /\ UploaderFairness

\* The job mover, whose thread always gets its turn, and revert_job,
\* without failures, over two poll cycles, with and without a ledger row
\* of an earlier session.
InitAgain ==
    Start0({Scenario(old, {"job"}, 1, MaxCycles + 1, MaxReverts, 0, 0) :
               old \in {"none", "reverted"}})
SpecAgain == InitAgain /\ [][Next]_vars /\ MoverFairness

\* The job mover alone, without failures: over a job folder with trigger
\* names of every kind, and over two job folders of one name in a row,
\* for one poll cycle more than the bound.
InitIntake ==
    Start0({Scenario(old, {"job"}, 1, MaxCycles + 1, 0, 0, MaxClock) : old \in {"docs", "twin"}})
NextIntake == Control \/ Mover \/ Arrive
SpecIntake == InitIntake /\ [][NextIntake]_vars

(***************************************************************************)
(* Properties.                                                             *)
(***************************************************************************)
PathsOf(x) == {p \in DOMAIN fs : fs[p].id = x}
JobFolders == {"F", "E"}

\* C1: across any interleaving of the three watchers and the revert, every
\* file and every job folder of the tree is at exactly one path (none is
\* deleted, duplicated or overwritten), and no job folder is merged into
\* another: each sits directly in the working area or in a company folder.
C1_ExactlyOnePath ==
    /\ \A x \in Items : Cardinality(PathsOf(x)) = 1
    /\ \A p \in DOMAIN fs :
          fs[p].id \in JobFolders =>
              \/ DirName(p) = SOURCE_BASE
              \/ (Len(p) = Len(BILLING_BASE) + 2 /\ IsPrefix(BILLING_BASE, p))

\* The moves that are decided and not yet carried out.
Pending ==
    {loops[x[1]][x[2]].cur : x \in {y \in Watchers \X Slots : loops[y[1]][y[2]].pc = "act"}}
        \cup (IF gui.pc = "revert" THEN {gui.cur} ELSE {})

\* C2: every move (ingest, promotion, reconciliation, revert) is invoked only
\* on a destination path that the code tested and found absent, also when
\* the destination carries a numeric suffix or a timestamp suffix.
C2_DestinationConfirmedFree == \A c \in Pending : c.free = c.dst

\* Steps of revert_job: the step that starts an invocation, the step that
\* ends one (the same step when it returns before the move), and a step of
\* either kind in which no failure is injected.
RevertStarts == gui.pc = "idle" /\ reverts' = reverts + 1
RevertMoves == gui.pc = "revert" /\ gui'.pc = "idle"
RevertEnds == (RevertStarts /\ gui'.pc = "idle") \/ RevertMoves
NoFault == faults' = faults

\* The step in which thread i of the job mover carries out a promotion move.
Promotes(i) == loops["job"][i].pc = "act" /\ loops'["job"][i].pc # "act"

\* The tree rooted at src in f is the tree rooted at dst in g, node for node,
\* and nothing of it is left at src.
Relocated(f, g, src, dst) ==
    \A p \in DOMAIN f :
        IsPrefix(src, p) =>
            LET q == dst \o SubSeq(p, Len(src) + 1, Len(p))
            IN  p \notin DOMAIN g /\ q \in DOMAIN g /\ g[q] = f[p]

LastMatch(job_no) ==
    LET matches == Matches(revertLog, job_no) IN matches[Len(matches)]

C4_RevertKeepsLedger ==
    [][ (RevertStarts \/ RevertMoves) => revertLog' = revertLog ]_vars

\* A revert has moved a folder back and the row it acted on is in the ledger.
C4_Witness ==
    /\ gui.pc = "idle" /\ gui.result = "Reverted successfully"
    /\ historyLog # <<>>
    /\ LET h == historyLog[Len(historyLog)]
       IN  \E n \in 1..Len(revertLog) :
              /\ revertLog[n].job = gui.job
              /\ revertLog[n].moved = h.from

FailedStatuses ==
    {"FAILED: Folder not at moved location", "FAILED: Original directory missing",
     "FAILED: Permission denied", "FAILED: error"}

C7_LastEntryWins ==
    [][ (RevertStarts /\ NoFault) =>
            \A n \in 1..Len(revertLog) :
                (/\ revertLog[n].job = gui'.job
                 /\ \A m \in (n + 1)..Len(revertLog) : revertLog[m].job # gui'.job) =>
                    IF gui'.pc = "revert"
                    THEN /\ gui'.cur.src = revertLog[n].moved
                         /\ gui'.cur.tag = <<gui'.job, revertLog[n].original>>
                         /\ Exists(fs, revertLog[n].moved)
                    ELSE /\ historyLog' = Append(historyLog, historyLog'[Len(historyLog')])
                         /\ historyLog'[Len(historyLog')].from = revertLog[n].moved
                         /\ historyLog'[Len(historyLog')].to = revertLog[n].original
      ]_vars

\* The ledger holds two rows for the job folder, the earlier one with the
\* later time, and a revert is about to move the folder of the later row.
C7_Witness ==
    /\ Len(Matches(revertLog, JobName)) >= 2
    /\ Matches(revertLog, JobName)[1].ts > LastMatch(JobName).ts
    /\ Matches(revertLog, JobName)[1].moved # LastMatch(JobName).moved
    /\ gui.pc = "revert" /\ gui.job = JobName
    /\ gui.cur.src = LastMatch(JobName).moved

\* C8 as stated: at every reachable state the number of rows appended to the
\* ledger equals the number of completed promotion moves.
C8_LedgerCountsPromotions == appended = stats["job"].moved

MovedRows == SelectSeq(moveLog, LAMBDA r : r.action = "MOVED")

\* C8 as amended: a completed promotion move appends one ledger row with the
\* folder's key, its original path and its final path when the ledger can be
\* written, and none when the write fails (the move stands); nothing else
\* appends to the ledger, so the rows appended never outnumber the completed
\* moves and fall short of them by at most the failed ledger writes.
C8_LedgerRowPerPromotion ==
    [][ /\ \A i \in Slots :
              (Promotes(i) /\ stats'["job"].moved = stats["job"].moved + 1) =>
                  LET c == loops["job"][i].cur
                      row == [job |-> BaseName(c.src), original |-> c.src,
                              moved |-> c.dst, ts |-> now']
                  IN  /\ Relocated(fs, fs', c.src, c.dst)
                      /\ IF NoFault
                         THEN revertLog' = Append(revertLog, row) /\ appended' = appended + 1
                         ELSE \/ revertLog' = Append(revertLog, row) /\ appended' = appended + 1
                              \/ revertLog' = revertLog /\ appended' = appended
        /\ appended' # appended =>
              \E i \in Slots : Promotes(i) /\ stats'["job"].moved = stats["job"].moved + 1
        /\ appended' <= stats'["job"].moved
        /\ stats'["job"].moved <= appended' + faults'
      ]_vars

\* The job folder was promoted while the ledger could not be written: the
\* folder is in the company folder and the ledger has no row for it.
C8_Witness ==
    /\ stats["job"].moved = 1 /\ appended = 0 /\ revertLog = <<>>
    /\ NodeAt(fs, OldPath).id = "F"
    /\ MovedRows # <<>>

\* C9: when the promotion move fails (permission or any other file system
\* failure) the outcome is an ERROR row with the reason, the tree is as it
\* was (the job folder still at its original path) and the ledger gets no
\* row; a promotion step that is not an error relocates the folder.
C9_FailedPromotion ==
    [][ \A i \in Slots :
            LET th == loops["job"][i]
                job_path == IF th.pc = "act" THEN th.cur.src ELSE DirName(Head(th.todo))
            IN  /\ (th.pc \in {"scan", "act"}
                    /\ stats'["job"].errors = stats["job"].errors + 1) =>
                      /\ fs' = fs
                      /\ Exists(fs', job_path)
                      /\ revertLog' = revertLog /\ appended' = appended
                      /\ stats'["job"].moved = stats["job"].moved
                      /\ Len(moveLog') = Len(moveLog) + 1
                      /\ moveLog'[Len(moveLog')].job = BaseName(job_path)
                      /\ moveLog'[Len(moveLog')].action = "ERROR"
                      /\ moveLog'[Len(moveLog')].comments
                            \in {<<"Permission denied">>, <<"Move failed">>}
                /\ (Promotes(i) /\ fs' = fs) =>
                      stats'["job"].errors = stats["job"].errors + 1
      ]_vars

\* The move of the job folder was refused: the folder is where it was, the
\* log ends with the ERROR row and the ledger got no row.
C9_Witness ==
    /\ stats["job"].errors = 1 /\ stats["job"].moved = 0
    /\ NodeAt(fs, JobPath).id = "F"
    /\ ~Exists(fs, OldPath)
    /\ Exists(fs, CompanyPath)
    /\ appended = 0
    /\ moveLog # <<>>
    /\ moveLog[Len(moveLog)].action = "ERROR"
    /\ moveLog[Len(moveLog)].comments = <<"Permission denied">>

\* C10 as stated: a job folder that holds several trigger documents is moved
\* at most once in a poll cycle.
C10_OncePerCycle == stats["job"].moved <= cycles["job"]

\* C10 as amended: a trigger document is acted on only if its parent folder
\* exists when the document is examined (otherwise the step changes nothing
\* and writes nothing); a job folder that holds several trigger documents is
\* moved at most once in a poll cycle unless a revert puts it back during
\* the cycle, and every move yields at most one ledger row and one MOVED row.
C10_OncePerCycleUnlessReverted ==
    [][ /\ \A i \in Slots :
              LET th == loops["job"][i]
              IN  (th.pc = "scan" /\ loops'["job"][i] # th
                   /\ ~Exists(fs, DirName(Head(th.todo)))) =>
                      /\ loops'["job"][i] = NextItem(th)
                      /\ UNCHANGED <<fs, stats, moveLog, revertLog, appended>>
        /\ stats'["job"].moved <= cycles'["job"] + reverts'
        /\ appended' <= stats'["job"].moved
        /\ Len(MovedRows') <= stats'["job"].moved
      ]_vars

\* In one poll cycle the job folder was promoted, reverted and promoted
\* again by the second trigger document.
C10_Witness ==
    /\ cycles["job"] = 1 /\ reverts = 1
    /\ stats["job"].moved = 2
    /\ Len(MovedRows) = 2
    /\ MovedRows[1].trigger # MovedRows[2].trigger

(***************************************************************************)
(* C11: the promotion watcher never moves the inbox folder, although a     *)
(* trigger document whose text names a mapped importer sits in it: the     *)
(* inbox stays at its path with the document inside, and neither the move  *)
(* log nor the ledger ever gets a row for it.                              *)
(***************************************************************************)
InboxTrigger == Join(UPLOAD_OOC, TrigUnderscore)

C11_InboxNeverPromoted ==
    /\ NodeAt(fs, UPLOAD_OOC) = Dir("inbox")
    /\ NodeAt(fs, InboxTrigger) = File("U")
    /\ find_importer(DocText["U"]) # "None"
    /\ \A n \in 1..Len(moveLog) : Lower(moveLog[n].job) # INBOX_SKIP
    /\ \A n \in 1..Len(revertLog) : revertLog[n].original # UPLOAD_OOC

\* A poll cycle that globbed the inbox's trigger document has gone through
\* all its items and promoted the job folder, the inbox staying behind.
C11_Witness ==
    /\ InboxTrigger \in GlobTriggers(fs, TRIGGER_PATTERNS[1])
    /\ cycles["job"] >= 1
    /\ stats["job"].moved >= 1
    /\ \E i \in Slots : loops["job"][i].pc = "loop" /\ loops["job"][i].todo = <<>>
    /\ NodeAt(fs, UPLOAD_OOC) = Dir("inbox")

(***************************************************************************)
(* C12: when a folder of the same name is already at the destination, the  *)
(* promoted job folder is put beside it, directly in the company folder,   *)
(* under the name with a timestamp suffix; the folder that was there keeps *)
(* its path and gets nothing put inside it - also for two such promotions  *)
(* that carry the same timestamp.                                          *)
(***************************************************************************)
C12_StampedBesideExisting ==
    cfg.old = "twin" =>
        /\ NodeAt(fs, OldPath) = Dir("E")
        /\ \A p \in DOMAIN fs : IsPrefix(OldPath, p) => p = OldPath
        /\ \A p \in DOMAIN fs :
              (fs[p].id \in {"F", "G"} /\ IsPrefix(BILLING_BASE, p)) =>
                  \E t \in 0..cfg.clock : p = WithStamp(OldPath, t)

(***************************************************************************)
(* C13: in each poll cycle the files the promotion watcher treats as       *)
(* triggers are exactly the files directly inside an immediate child       *)
(* folder of the working area whose name is_trigger_file accepts.          *)
(***************************************************************************)
CycleStarts(i) == loops["job"][i].pc = "loop" /\ cycles'["job"] = cycles["job"] + 1
TriggersOf(th) == {th.todo[k] : k \in 1..Len(th.todo)}
InChildFolder(f, p) ==
    /\ Len(p) = Len(SOURCE_BASE) + 2
    /\ IsPrefix(SOURCE_BASE, p)
    /\ IsDir(f, DirName(p))
    /\ f[p].kind = "file"

C13_TriggersAreTriggerDocuments ==
    [][\A i \in Slots : CycleStarts(i) =>
          TriggersOf(loops'["job"][i]) =
              {p \in DOMAIN fs : InChildFolder(fs, p) /\ is_trigger_file(BaseName(p))}]_vars

\* C13 as the code has it: of those files, the ones whose name ends in
\* ".pdf" (compared without regard to case, as the trigger prefix is).
C13_TriggersArePdfTriggerDocuments ==
    [][\A i \in Slots : CycleStarts(i) =>
          TriggersOf(loops'["job"][i]) =
              {p \in DOMAIN fs : /\ InChildFolder(fs, p)
                                  /\ is_trigger_file(BaseName(p))
                                  /\ EndsWith(Lower(BaseName(p)), PdfExt)}]_vars

\* A cycle has begun over the job folder that holds trigger names of every
\* kind: the lower-case one is among its triggers, the one that is no PDF
\* and the one further down are not.
C13_Witness ==
    /\ cfg.old = "docs"
    /\ \E i \in Slots :
          /\ loops["job"][i].pc = "scan"
          /\ Join(JobPath, TrigLower) \in TriggersOf(loops["job"][i])
          /\ Join(JobPath, TrigDocx) \notin TriggersOf(loops["job"][i])
          /\ Join(Join(JobPath, SubName), TrigUnderscore) \notin TriggersOf(loops["job"][i])
          /\ Len(loops["job"][i].todo) = 4
    /\ Exists(fs, Join(JobPath, TrigDocx))
    /\ Exists(fs, Join(Join(JobPath, SubName), TrigUnderscore))

(***************************************************************************)
(* C14: a promoted job folder named N, whose trigger text made the watcher *)
(* resolve importer key I, ends at BILLING_BASE/mapping[I]/N or at that    *)
(* path with a timestamp suffix, the company folder existing afterwards;   *)
(* and the moved path of every ledger row lies directly under a company    *)
(* folder named by a value of the mapping.                                 *)
(***************************************************************************)
CompanyFolders == {Join(BILLING_BASE, IMPORTER_MAP[k].folder) : k \in 1..Len(IMPORTER_MAP)}

C14_PromotedUnderCompanyFolder ==
    [][/\ \A i \in Slots :
            (Promotes(i) /\ stats'["job"].moved = stats["job"].moved + 1) =>
                LET c == loops["job"][i].cur
                    company == Join(BILLING_BASE, MapGet(c.tag[1]))
                    dest == Join(company, BaseName(c.src))
                IN  /\ company \in CompanyFolders
                    /\ IsDir(fs', company)
                    /\ \/ Relocated(fs, fs', c.src, dest)
                       \/ \E t \in 0..cfg.clock : Relocated(fs, fs', c.src, WithStamp(dest, t))
       /\ \A n \in 1..Len(revertLog') : DirName(revertLog'[n].moved) \in CompanyFolders]_vars

(***************************************************************************)
(* C15: an inbox PDF whose name carries the IR job number, with a job      *)
(* folder for that number in the working area, is moved by the poll cycle  *)
(* into that folder under a name that is free when the watcher chooses it  *)
(* (the name itself or the name with a numeric suffix), replacing nothing, *)
(* and exactly one MOVED row is logged for it.                             *)
(***************************************************************************)
OocScans(i) == loops["ooc"][i].pc = "scan" /\ loops'["ooc"][i] # loops["ooc"][i]
OocActs(i) == loops["ooc"][i].pc = "act" /\ loops'["ooc"][i].pc # "act"
Suffixes(p) == {p} \cup {Numbered(p, k) : k \in 1..9}

C15_IngestMovesUnderFreeName ==
    [][\A i \in Slots :
          LET th == loops["ooc"][i]
              filename == Head(th.todo)
              key == IrJobNo(filename)
              folders == {d \in ListDir(fs, SOURCE_BASE) :
                              IsDir(fs, Join(SOURCE_BASE, d)) /\ Contains(Upper(d), key)}
              c == th.cur
          IN  /\ (/\ OocScans(i) /\ NoFault
                  /\ NodeAt(fs, Join(UPLOAD_OOC, filename)).kind = "file"
                  /\ EndsWith(Lower(filename), PdfExt)
                  /\ key # <<>> /\ folders # {}) =>
                     /\ loops'["ooc"][i].pc = "act"
                     /\ loops'["ooc"][i].cur.src = Join(UPLOAD_OOC, filename)
                     /\ ~Exists(fs, loops'["ooc"][i].cur.dst)
                     /\ \E d \in folders :
                           loops'["ooc"][i].cur.dst \in Suffixes(Join(Join(SOURCE_BASE, d), filename))
              /\ (OocActs(i) /\ NoFault) =>
                     /\ ~Exists(fs, c.dst)
                     /\ ~Exists(fs', c.src)
                     /\ NodeAt(fs', c.dst) = fs[c.src]
                     /\ \A p \in DOMAIN fs \ {c.src} : NodeAt(fs', p) = fs[p]
                     /\ oocLog' = Append(oocLog, OocRow(BaseName(c.src), IrJobNo(BaseName(c.src)),
                                                       c.dst, "MOVED"))
                     /\ stats'["ooc"] = [stats["ooc"] EXCEPT !.moved = @ + 1]]_vars

\* The uploaded document was moved into the job folder beside the document
\* of the same name, under the name with suffix _1, and logged.
C15_Witness ==
    /\ NodeAt(fs, Numbered(Join(JobPath, TrigUnderscore), 1)) = File("U")
    /\ NodeAt(fs, Join(JobPath, TrigUnderscore)) = File("T1")
    /\ ~Exists(fs, InboxTrigger)
    /\ \E n \in 1..Len(oocLog) :
          oocLog[n] = OocRow(TrigUnderscore, JobName,
                             Numbered(Join(JobPath, TrigUnderscore), 1), "MOVED")

(***************************************************************************)
(* C16: whenever the uploader is done with an inbox file without having    *)
(* moved it (no job number in the name, no job folder, a failure of the    *)
(* listing or of the move), the file is still at its inbox path; and every *)
(* poll cycle lists the whole inbox anew, so the file is gone through      *)
(* again in the next one.                                                  *)
(***************************************************************************)
C16_UnmovedFileStays ==
    [][\A i \in Slots :
          LET th == loops["ooc"][i]
          IN  /\ (OocScans(i) /\ loops'["ooc"][i].pc # "act") =>
                     /\ fs' = fs
                     /\ Exists(fs', Join(UPLOAD_OOC, Head(th.todo)))
              /\ (OocActs(i) /\ stats'["ooc"].moved = stats["ooc"].moved) =>
                     /\ Exists(fs, th.cur.src)
                     /\ NodeAt(fs', th.cur.src) = fs[th.cur.src]
                     /\ DirName(th.cur.src) = UPLOAD_OOC
              /\ (th.pc = "loop" /\ loops'["ooc"][i].pc = "scan") =>
                     TriggersOf(loops'["ooc"][i]) = ListDir(fs, UPLOAD_OOC)]_vars

\* A second poll cycle goes through the three files the first one left in
\* the inbox: one without job number, one without job folder, and one whose
\* move failed.
C16_Witness ==
    /\ cfg.old = "stuck"
    /\ cycles["ooc"] = 2
    /\ \E i \in Slots :
          /\ loops["ooc"][i].pc = "scan"
          /\ TriggersOf(loops["ooc"][i]) = {NoNumber, NoFolder, TrigUnderscore}
    /\ stats["ooc"] = [moved |-> 0, skipped |-> 1, errors |-> 2]
    /\ \E n \in 1..Len(oocLog) :
          oocLog[n] = OocRow(TrigUnderscore, JobName, <<>>, "ERROR: move failed")
    /\ NodeAt(fs, InboxTrigger) = File("U")
    /\ NodeAt(fs, Join(UPLOAD_OOC, NoNumber)) = File("NK")
    /\ NodeAt(fs, Join(UPLOAD_OOC, NoFolder)) = File("NF")

(***************************************************************************)
(* C17: in every poll cycle of the uploader each file of the inbox gets    *)
(* exactly one outcome (one of the three counters goes up by one) and      *)
(* exactly one row, carrying its filename, is appended to the upload log.  *)
(***************************************************************************)
OocStatuses == {"MOVED", "SKIPPED", "ERROR: Folder not found", "ERROR: move failed"}

C17_OneOutcomeOneRow ==
    [][\A i \in Slots :
          LET th == loops["ooc"][i]
              path == IF th.pc = "act" THEN th.cur.src ELSE Join(UPLOAD_OOC, Head(th.todo))
          IN  (/\ (OocScans(i) /\ loops'["ooc"][i].pc # "act") \/ OocActs(i)
               /\ NoFault
               /\ NodeAt(fs, path).kind = "file") =>
                  /\ Len(oocLog') = Len(oocLog) + 1
                  /\ oocLog'[Len(oocLog')].filename = BaseName(path)
                  /\ oocLog'[Len(oocLog')].status \in OocStatuses
                  /\ \E field \in {"moved", "skipped", "errors"} :
                        stats'["ooc"] = [stats["ooc"] EXCEPT ![field] = @ + 1]]_vars

(***************************************************************************)
(* C18: the uploader acts only on names that carry IR followed by exactly  *)
(* five digits: an inbox PDF whose name has no IR job number, or has IR    *)
(* followed by fewer or by more than five digits, is skipped - the skip    *)
(* counter goes up by one and the file is not moved.                       *)
(***************************************************************************)
\* IR, an optional separator, five digits and no sixth, somewhere in s.
CarriesIrKey(s) ==
    \E i \in 1..Len(s) :
        /\ i + 1 <= Len(s) /\ UpperChar(s[i]) = "I" /\ UpperChar(s[i + 1]) = "R"
        /\ \E d \in {i + 2, i + 3} :
              /\ d = i + 3 => s[i + 2] \in Separators
              /\ DigitsAt(s, d, 5)
              /\ ~DigitsAt(s, d, 6)

C18_OnlyFiveDigitKeys ==
    [][\A i \in Slots :
          LET th == loops["ooc"][i]
              filename == Head(th.todo)
          IN  (/\ OocScans(i) /\ NoFault
               /\ NodeAt(fs, Join(UPLOAD_OOC, filename)).kind = "file"
               /\ EndsWith(Lower(filename), PdfExt)
               /\ ~CarriesIrKey(filename)) =>
                  /\ loops'["ooc"][i].pc # "act"
                  /\ stats'["ooc"] = [stats["ooc"] EXCEPT !.skipped = @ + 1]
                  /\ fs' = fs]_vars

(***************************************************************************)
(* C19: a stray file of a monitored type at the top level of a company     *)
(* folder that is gone through, whose job number is contained in the name  *)
(* of a sibling folder, is moved by the poll cycle into such a sibling     *)
(* under a name that is free when the watcher chooses it, with one MOVED   *)
(* row; if the move fails the file stays in place, with one ERROR row.     *)
(***************************************************************************)
LooseScans(i) == loops["loose"][i].pc = "item" /\ loops'["loose"][i] # loops["loose"][i]
LooseActs(i) == loops["loose"][i].pc = "act" /\ loops'["loose"][i].pc # "act"
Siblings(f, company_path, key) ==
    {n \in ListDir(f, company_path) :
        f[Join(company_path, n)].kind = "dir" /\ Contains(Upper(n), key)}

C19_StrayFileJoinsSibling ==
    [][\A i \in Slots :
          LET th == loops["loose"][i]
              company_path == Join(BILLING_BASE, Head(th.todo))
              item == Head(th.sub)
              key == extract_job_number(item)
              c == th.cur
          IN  /\ (/\ LooseScans(i) /\ NoFault
                  /\ NodeAt(fs, Join(company_path, item)).kind = "file"
                  /\ Lower(SplitExt(item).ext) \in MONITORED_EXTENSIONS
                  /\ key # <<>>
                  /\ Siblings(fs, company_path, key) # {}) =>
                     /\ loops'["loose"][i].pc = "act"
                     /\ loops'["loose"][i].cur.src = Join(company_path, item)
                     /\ ~Exists(fs, loops'["loose"][i].cur.dst)
                     /\ \E n \in Siblings(fs, company_path, key) :
                           loops'["loose"][i].cur.dst \in
                               Suffixes(Join(Join(company_path, n), item))
              /\ LooseActs(i) =>
                     IF stats'["loose"].moved = stats["loose"].moved + 1
                     THEN /\ ~Exists(fs, c.dst)
                          /\ ~Exists(fs', c.src)
                          /\ NodeAt(fs', c.dst) = fs[c.src]
                          /\ \A p \in DOMAIN fs \ {c.src} : NodeAt(fs', p) = fs[p]
                          /\ NoFault => looseLog' = Append(looseLog,
                                LooseRow(Head(th.todo), BaseName(c.src), c.src, c.dst, "MOVED"))
                          /\ stats'["loose"].errors = stats["loose"].errors
                     ELSE /\ NodeAt(fs', c.src) = fs[c.src]
                          /\ Len(looseLog') = Len(looseLog) + 1
                          /\ looseLog'[Len(looseLog')].filename = BaseName(c.src)
                          /\ looseLog'[Len(looseLog')].status = "ERROR"
                          /\ stats'["loose"] = [stats["loose"] EXCEPT !.errors = @ + 1]]_vars

\* The stray document was moved into the job folder beside the document of
\* the same name, under the name with suffix _1, and logged, after a first
\* poll cycle in which the move failed and was logged as an error.
C19_Witness ==
    /\ cfg.old = "strays"
    /\ NodeAt(fs, Numbered(Join(OldPath, TrigUnderscore), 1)) = File("L")
    /\ NodeAt(fs, Join(OldPath, TrigUnderscore)) = File("EL")
    /\ ~Exists(fs, Join(CompanyPath, TrigUnderscore))
    /\ Len(looseLog) = 2
    /\ looseLog[1].status = "ERROR"
    /\ looseLog[2] = LooseRow(BlueStar, TrigUnderscore, Join(CompanyPath, TrigUnderscore),
                              Numbered(Join(OldPath, TrigUnderscore), 1), "MOVED")
    /\ stats["loose"] = [moved |-> 1, skipped |-> 0, errors |-> 1]

(***************************************************************************)
(* C20: the organizer leaves in place, writes no row for and changes no    *)
(* counter for a directory, a file of an extension that is not monitored,  *)
(* a file without job number, a file whose job number no sibling folder    *)
(* contains, and whatever is inside an excluded company folder (which it   *)
(* does not even list); every poll cycle lists the billing base and each   *)
(* company folder it goes through anew, so these are examined again.       *)
(***************************************************************************)
Untouched == fs' = fs /\ looseLog' = looseLog /\ stats' = stats
KeptPaths ==
    {Join(CompanyPath, SubName), Join(CompanyPath, NoPdf), Join(CompanyPath, NoNumber),
     Join(CompanyPath, TrigUnderscore), Join(ExcludedPath, JobName),
     Join(ExcludedPath, TrigUnderscore)}

C20_SkippedEntriesUntouched ==
    [][\A i \in Slots :
          LET th == loops["loose"][i]
              th2 == loops'["loose"][i]
              company_path == Join(BILLING_BASE, Head(th.todo))
              item == Head(th.sub)
              key == extract_job_number(item)
          IN  /\ (/\ LooseScans(i)
                  /\ \/ NodeAt(fs, Join(company_path, item)).kind = "dir"
                     \/ Lower(SplitExt(item).ext) \notin MONITORED_EXTENSIONS
                     \/ key = <<>>
                     \/ Siblings(fs, company_path, key) = {}) =>
                     Untouched /\ th2.pc # "act"
              /\ (th.pc = "scan" /\ th2 # th /\ Head(th.todo) = ExcludedName) =>
                     Untouched /\ th2.pc # "item" /\ th2.sub = <<>>
              /\ (th.pc = "loop" /\ th2.pc = "scan") =>
                     TriggersOf(th2) = ListDir(fs, BILLING_BASE)
              /\ (th.pc = "scan" /\ th2.pc = "item") =>
                     {th2.sub[k] : k \in 1..Len(th2.sub)} = ListDir(fs, company_path)
              /\ cfg.old = "kept" =>
                     /\ \A p \in KeptPaths : NodeAt(fs', p) = NodeAt(fs, p) /\ Exists(fs', p)
                     /\ looseLog' = <<>>
                     /\ stats'["loose"].moved = 0 /\ stats'["loose"].skipped = 0]_vars

\* A second poll cycle goes through the company folder again, whose
\* directory, unmonitored file, file without job number and file without
\* sibling folder the first cycle left where they were, without row and
\* without count, as it left the excluded folder's stray document.
C20_Witness ==
    /\ cfg.old = "kept"
    /\ cycles["loose"] = 2
    /\ \E i \in Slots :
          /\ loops["loose"][i].pc = "item"
          /\ Head(loops["loose"][i].todo) = BlueStar
          /\ {loops["loose"][i].sub[k] : k \in 1..Len(loops["loose"][i].sub)} =
                 {SubName, NoPdf, NoNumber, TrigUnderscore}
    /\ \A p \in KeptPaths : Exists(fs, p)
    /\ NodeAt(fs, Join(ExcludedPath, TrigUnderscore)) = File("XL")
    /\ looseLog = <<>>
    /\ stats["loose"] = [moved |-> 0, skipped |-> 0, errors |-> 0]
    /\ faults = 0

(***************************************************************************)
(* C21: every counter of every watcher never decreases: no step of a poll  *)
(* cycle, no start, no stop and no restart resets or lowers it.            *)
(***************************************************************************)
Counters == {"moved", "skipped", "errors"}

InHand == {"scan", "item", "act"}

C22_RestOfCycleProcessed ==
    [][\A w \in Watchers : \A i \in Slots :
          LET th == loops[w][i]
          IN  (th.pc \in InHand /\ Len(th.todo) > 1)
                  => /\ loops'[w][i].pc \in InHand
                     /\ loops'[w][i].todo \in {th.todo, Tail(th.todo)}]_vars

(***************************************************************************)
(* C23: once stop is issued for a watcher, every loop of that watcher that *)
(* is still alive eventually terminates (after the poll cycle it is in).   *)
(***************************************************************************)
C23_StoppedLoopTerminates ==
    \A w \in Watchers : \A i \in Slots :
        (~running[w] /\ loops[w][i].pc # "off") ~> (loops[w][i].pc = "off")

(***************************************************************************)
(* C24: no row appended to the transaction ledger by the promotion watcher *)
(* is lost or altered, whatever the undo and administrative side does at   *)
(* the same time: while the operator deletes only the rows of another job, *)
(* the ledger holds one row of the job folder's key, naming the path the   *)
(* folder left and the path it is at, for every row the watcher appended.  *)
(***************************************************************************)
RowsOf(job_no) == {n \in 1..Len(revertLog) : revertLog[n].job = job_no}

C24_AppendedRowsStay ==
    cfg.old = "ledger"
        => /\ Cardinality(RowsOf(JobName)) = appended
           /\ \A n \in RowsOf(JobName) :
                 /\ revertLog[n].original = JobPath
                 /\ NodeAt(fs, revertLog[n].moved).id = "F"

(***************************************************************************)
(* C25: a log or ledger that cannot be written costs only its row.  In     *)
(* every step in which a watcher thread finishes an item without the row   *)
(* reaching the watcher's log (or, for the promotion watcher, its ledger), *)
(* a move that was made is counted and kept (the item is at the            *)
(* destination chosen for it and no longer at its source), and the thread  *)
(* goes on with the items that remain, which leads to its next cycle.      *)
(***************************************************************************)
RowMissing(w) ==
    CASE w = "ooc" -> oocLog' = oocLog
      [] w = "loose" -> looseLog' = looseLog
      [] OTHER -> moveLog' = moveLog \/ revertLog' = revertLog

GoesOn(w, th, th2) ==
    /\ th2.pc \in {"scan", "item", "loop"}
    /\ IF w = "loose" /\ Tail(th.sub) # <<>>
       THEN th2.todo = th.todo /\ th2.sub = Tail(th.sub)
       ELSE th2.todo = Tail(th.todo)

C25_LedgerFailureKeepsMove ==
    [][\A w \in Watchers : \A i \in Slots :
          LET th == loops[w][i]
          IN  (th.pc = "act" /\ loops'[w][i] # th /\ RowMissing(w))
                  => /\ GoesOn(w, th, loops'[w][i])
                     /\ running' = running
                     /\ \/ /\ stats'[w] = [stats[w] EXCEPT !.moved = @ + 1]
                           /\ Exists(fs, th.cur.src)
                           /\ Relocated(fs, fs', th.cur.src, th.cur.dst)
                        \/ stats'[w] = [stats[w] EXCEPT !.errors = @ + 1]]_vars

\* A watcher has moved an item and counted it while its log has no row.
C25_Witness ==
    \/ stats["ooc"].moved = 1 /\ oocLog = <<>> /\ stats["ooc"].errors = 0
          /\ stats["ooc"].skipped = 0
    \/ stats["job"].moved = 1 /\ revertLog = <<>> /\ moveLog # <<>>
    \/ stats["loose"].moved = 1 /\ looseLog = <<>>

(***************************************************************************)
(* C26: unique_filename answers the path itself when nothing is there,     *)
(* else the first of its variants _1, _2, ... at which nothing is: every   *)
(* earlier candidate exists, the answer does not (so with the name and its *)
(* variants _1 .. _(N-1) taken the answer is _N).                          *)
(***************************************************************************)
C26_FirstFreeVariant ==
    \A i \in Slots :
        LET th == loops["ooc"][i]
        IN  (cfg.old = "names" /\ th.pc = "act" /\ th.cur.tag[1] = Plain)
                => /\ ~Exists(fs, th.cur.dst)
                   /\ \E k \in 0..(MaxSuffix + 1) :
                         /\ th.cur.dst = Candidate(k)
                         /\ \A j \in 0..(k - 1) : Exists(fs, Candidate(j))

\* The name and all its variants up to the bound are taken, and the answer
\* is the next variant.
C26_Witness ==
    /\ cfg.old = "names"
    /\ cfg.taken = 0..MaxSuffix
    /\ \E i \in Slots :
          /\ loops["ooc"][i].pc = "act"
          /\ loops["ooc"][i].cur.dst = Candidate(MaxSuffix + 1)

(***************************************************************************)
(* C27: for every filename the ingest pattern (IR, at most one separator,  *)
(* five digits, in any letter case) matches, extract_job_number answers    *)
(* "IR" and those five digits.  As stated this fails for a name in which   *)
(* another key comes first; it holds when no match of the general pattern  *)
(* (IR or ER, at most one separator, four or five digits) begins before    *)
(* the first match of the ingest pattern.                                  *)
(***************************************************************************)
IngestHits(s) == {i \in 1..Len(s) : IrDigitsAt(s, i) # 0}
GeneralHits(s) == {i \in 1..Len(s) : JobDigitsAt(s, i) # 0}
NoEarlierKey(s) == \A i \in GeneralHits(s) : \E j \in IngestHits(s) : j <= i

\* The entries of a company folder a thread of the organizer has in hand.
InHandNames == {Head(loops["loose"][i].sub) : i \in {j \in Slots : loops["loose"][j].pc \in {"item", "act"}}}

C27_IngestNamesGiveIrKey ==
    \A item \in InHandNames :
        IngestHits(item) # {} => extract_job_number(item) = IrJobNo(item)

C27_FirstKeyGivesIrKey ==
    \A item \in InHandNames :
        (IngestHits(item) # {} /\ NoEarlierKey(item))
            => /\ extract_job_number(item) = IrJobNo(item)
               /\ extract_job_number(item) = JobName

\* The stray document named in lower case with a hyphen is on its way into
\* the job folder IR12345.
C27_Witness ==
    \E i \in Slots :
        /\ cfg.old = "keys"
        /\ loops["loose"][i].pc = "act"
        /\ loops["loose"][i].cur.tag[2] = <<"i","r","-","1","2","3","4","5",".","p","d","f">>
        /\ DirName(loops["loose"][i].cur.dst) = Join(CompanyPath, JobName)

(***************************************************************************)
(* C28: the ledger lookup of revert_job takes no account of letter case:   *)
(* a revert answers that there is no entry only when the ledger has no row *)
(* whose job number is the given one in any letter case.                   *)
(***************************************************************************)
C28_RevertIgnoresCase ==
    [][(RevertStarts /\ gui'.pc = "idle" /\ gui'.result = "No revert entry found")
          => \A n \in 1..Len(revertLog) : Upper(revertLog[n].job) # Upper(gui'.job)]_vars

(***************************************************************************)
(* C29: a revert that found the recorded original path occupied moves the  *)
(* folder to the original path with a timestamp suffix: the whole folder   *)
(* is at that path afterwards, whatever is at or under the original path   *)
(* is as it was, and the SUCCESS row of the revert history names the       *)
(* folder's moved path and the suffixed path (the history being writable). *)
(***************************************************************************)
C29_OccupiedOriginalUntouched ==
    [][(RevertMoves /\ NoFault /\ gui'.result = "Reverted successfully"
           /\ gui.cur.free = <<>>)
          => LET c == gui.cur
                 original == c.tag[2]
             IN  /\ c.dst # original
                 /\ Relocated(fs, fs', c.src, c.dst)
                 /\ \A p \in DOMAIN fs \cup DOMAIN fs' :
                       IsPrefix(original, p)
                           => p \in DOMAIN fs /\ p \in DOMAIN fs' /\ fs'[p] = fs[p]
                 /\ historyLog' = Append(historyLog,
                       HistoryRow(gui.job, c.src, c.dst, "SUCCESS"))]_vars

(***************************************************************************)
(* C30: a revert that fails after it has selected a ledger row, because    *)
(* the directory of the original path is missing or because the move       *)
(* fails (for want of permission or otherwise), appends one FAILED row     *)
(* with the reason to the revert history, leaves the folder at its moved   *)
(* path and ends with a failure outcome (the history being writable).      *)
(***************************************************************************)
C30_FailedRevertLeavesFolder ==
    [][ /\ (RevertStarts /\ NoFault /\ Matches(revertLog, gui'.job) # <<>>) =>
              LET last == LastMatch(gui'.job)
              IN  (Exists(fs, last.moved) /\ ~Exists(fs, DirName(last.original))) =>
                      /\ gui' = GuiIdle(gui'.job, "Original directory doesn't exist")
                      /\ historyLog' = Append(historyLog,
                            HistoryRow(gui'.job, last.moved, last.original,
                                       "FAILED: Original directory missing"))
                      /\ fs' = fs
        /\ (RevertMoves /\ gui'.result # "Reverted successfully") =>
              \E reason \in {"perm", "other"} :
                  /\ gui' = GuiIdle(gui.job, IF reason = "perm" THEN "Permission denied"
                                                                ELSE "Error reverting")
                  /\ historyLog' = Append(historyLog,
                        HistoryRow(gui.job, Unknown, Unknown,
                                   IF reason = "perm" THEN "FAILED: Permission denied"
                                                      ELSE "FAILED: error"))
                  /\ Exists(fs, gui.cur.src) =>
                        /\ Exists(fs', gui.cur.src)
                        /\ fs'[gui.cur.src] = fs[gui.cur.src]
      ]_vars

\* A revert has failed for want of permission, or because the directory of
\* the original path is gone: its FAILED row is the last of the history and
\* the folder is still at its moved path.
C30_Witness ==
    /\ gui.pc = "idle"
    /\ historyLog # <<>>
    /\ NodeAt(fs, OldPath).id = "E"
    /\ \/ /\ cfg.old = "moved"
          /\ gui.result = "Permission denied"
          /\ historyLog[Len(historyLog)].status = "FAILED: Permission denied"
       \/ /\ cfg.old = "orphan"
          /\ gui.result = "Original directory doesn't exist"
          /\ historyLog[Len(historyLog)].status = "FAILED: Original directory missing"

(***************************************************************************)
(* C31: the string a revert returns is counted as a success by the revert  *)
(* window if and only if the revert moved the folder back: every failure   *)
(* outcome is counted as a failure.                                        *)
(***************************************************************************)
\* The path the outcome of the revert ending in this step names.
RevertNames ==
    CASE gui'.result = "Reverted successfully" -> gui.cur.dst
      [] gui'.result = "Folder no longer exists" -> LastMatch(gui'.job).moved
      [] gui'.result = "Original directory doesn't exist" ->
            DirName(LastMatch(gui'.job).original)
      [] OTHER -> <<>>

C31_MarkerIffMovedBack ==
    [][RevertEnds =>
          (counts_as_success(revert_message(gui'.result, gui'.job, RevertNames))
              <=> (RevertMoves /\ Exists(fs, gui.cur.src)
                     /\ ~Exists(fs', gui.cur.src)))]_vars

(***************************************************************************)
(* C32: a trigger document whose text cannot be extracted or is empty, or  *)
(* whose text names no importer of the map, is SKIPPED: one SKIPPED row is *)
(* appended to the move log, the job folder, the billing base and the      *)
(* ledger stay as they are, and the watcher goes on.                       *)
(***************************************************************************)
\* Thread i of the job mover looks at a trigger document of an existing job
\* folder in this step.
Examines(i) ==
    LET th == loops["job"][i]
    IN  /\ th.pc = "scan"
        /\ loops'["job"][i] # th
        /\ Lower(BaseName(DirName(Head(th.todo)))) # INBOX_SKIP
        /\ Exists(fs, DirName(Head(th.todo)))

\* The document it looks at has no text or names no importer.
Unclassifiable(i) ==
    LET text == extract_text_from_pdf(fs, Head(loops["job"][i].todo), "none")
    IN  text.empty \/ find_importer(text.keys) = "None"

Skips(i) == Unclassifiable(i) \/ stats'["job"].skipped = stats["job"].skipped + 1

\* The step leaves the tree and the ledger alone, counts one skip and leaves
\* the thread in its cycle with the flag as it was.
SkipFrame(i) ==
    LET th == loops["job"][i]
    IN  /\ fs' = fs
        /\ revertLog' = revertLog /\ appended' = appended
        /\ stats' = Bump("job", "skipped")
        /\ running' = running
        /\ loops'["job"][i].pc \in {"scan", "loop"}
        /\ loops'["job"][i].todo = Tail(th.todo)

SkippedRow(i) ==
    LET th == loops["job"][i]
    IN  /\ Len(moveLog') = Len(moveLog) + 1
        /\ SubSeq(moveLog', 1, Len(moveLog)) = moveLog
        /\ moveLog'[Len(moveLog')].action = "SKIPPED"
        /\ moveLog'[Len(moveLog')].job = BaseName(DirName(Head(th.todo)))
        /\ moveLog'[Len(moveLog')].trigger = BaseName(Head(th.todo))

C32_SkipAppendsRow ==
    [][\A i \in Slots : (Examines(i) /\ Skips(i)) => (SkipFrame(i) /\ SkippedRow(i))]_vars

\* The same, with the row missing exactly when the move log could not be
\* written.
C32_SkipAppendsRowIfWritable ==
    [][\A i \in Slots :
          (Examines(i) /\ Skips(i)) =>
              /\ SkipFrame(i)
              /\ \/ SkippedRow(i)
                 \/ moveLog' = moveLog /\ faults' = faults + 1]_vars

\* Both documents of the second job folder were skipped, one for its
\* missing text and one for its missing importer, the folder is where it
\* was and the thread is still alive.
C32_Witness ==
    /\ \E k \in 1..Len(moveLog) :
          /\ moveLog[k].action = "SKIPPED" /\ moveLog[k].job = BlankName
          /\ moveLog[k].comments = <<"Could not extract text from PDF">>
    /\ \E k \in 1..Len(moveLog) :
          /\ moveLog[k].action = "SKIPPED" /\ moveLog[k].job = BlankName
          /\ moveLog[k].comments = <<"No matching importer found in PDF">>
    /\ stats["job"].skipped = 2
    /\ NodeAt(fs, BlankPath).id = "G"
    /\ NodeAt(fs, Join(BlankPath, TrigUnderscore)).id = "B"
    /\ revertLog = <<>>
    /\ \E i \in Slots : loops["job"][i].pc # "off"

(***************************************************************************)
(* C33: the uploader prefers the folder named exactly by the job number:   *)
(* when SOURCE_BASE/job number exists the file goes there, whatever other  *)
(* folders contain the number; only when it is absent the file goes to a   *)
(* directory directly under SOURCE_BASE whose name contains the number,    *)
(* letter case ignored (the first that os.listdir yields).                 *)
(***************************************************************************)
\* Thread i of the uploader looks at an inbox PDF with a job number.
Resolves(i) ==
    LET th == loops["ooc"][i]
    IN  /\ th.pc = "scan"
        /\ loops'["ooc"][i] # th
        /\ ~IsDir(fs, Join(UPLOAD_OOC, Head(th.todo)))
        /\ EndsWith(Lower(Head(th.todo)), PdfExt)
        /\ IrJobNo(Head(th.todo)) # <<>>

\* The directories directly under SOURCE_BASE whose name contains the number.
Containing(job_no) ==
    {p \in DOMAIN fs : /\ DirName(p) = SOURCE_BASE /\ fs[p].kind = "dir"
                        /\ Contains(Upper(BaseName(p)), Upper(job_no))}

C33_ExactFolderPreferred ==
    [][\A i \in Slots :
          LET th == loops["ooc"][i]
              th2 == loops'["ooc"][i]
              job_no == IrJobNo(Head(th.todo))
              exact == Join(SOURCE_BASE, job_no)
          IN  /\ (Resolves(i) /\ NoFault) =>
                    /\ th2.pc = "act" <=> (Exists(fs, exact) \/ Containing(job_no) # {})
                    /\ th2.pc = "act" =>
                          /\ th2.cur.src = Join(UPLOAD_OOC, Head(th.todo))
                          /\ BaseName(th2.cur.dst) = Head(th.todo)
                                \/ Exists(fs, Join(DirName(th2.cur.dst), Head(th.todo)))
                          /\ IF Exists(fs, exact) THEN DirName(th2.cur.dst) = exact
                             ELSE DirName(th2.cur.dst) \in Containing(job_no)
              /\ (th.pc = "act" /\ th2 # th /\ NoFault) =>
                    /\ ~Exists(fs', th.cur.src)
                    /\ NodeAt(fs', th.cur.dst) = NodeAt(fs, th.cur.src)]_vars

\* The document went into the exact folder although two other folders
\* contain the number.
C33_Witness ==
    /\ cfg.old = "pick" /\ cfg.dirs = PickDirs
    /\ NodeAt(fs, Join(Join(SOURCE_BASE, PickKey), PickDoc)).id = "Q"
    /\ ~Exists(fs, Join(UPLOAD_OOC, PickDoc))

(***************************************************************************)
(* C34: the cycle working area -> billing base -> reverted -> working area *)
(* of one job folder can be repeated: every promotion adds one ledger row  *)
(* for it, and a revert of the job number issued while the folder is at    *)
(* the moved path of its latest ledger row succeeds and puts the folder    *)
(* back in the working area.                                               *)
(***************************************************************************)
\* Thread i of the job mover leaves move_folder in this step.
Records(i) == loops["job"][i].pc = "ledger" /\ loops'["job"][i].pc = "row"

C34_RoundsRepeat ==
    [][ /\ \A i \in Slots :
              Records(i) =>
                  LET c == loops["job"][i].cur
                  IN  /\ Len(revertLog') = Len(revertLog) + 1
                      /\ SubSeq(revertLog', 1, Len(revertLog)) = revertLog
                      /\ revertLog'[Len(revertLog')].job = BaseName(c.src)
                      /\ revertLog'[Len(revertLog')].original = c.src
                      /\ revertLog'[Len(revertLog')].moved = c.dst
        /\ (\A i \in Slots : ~Records(i)) => revertLog' = revertLog
        /\ (RevertStarts /\ Matches(revertLog, gui'.job) # <<>>
              /\ IsDir(fs, LastMatch(gui'.job).moved)) =>
              /\ gui'.pc = "revert"
              /\ gui'.cur.src = LastMatch(gui'.job).moved
              /\ gui'.cur.dst = Join(SOURCE_BASE, gui'.job)
        /\ RevertMoves =>
              /\ gui'.result = "Reverted successfully"
              /\ Relocated(fs, fs', gui.cur.src, gui.cur.dst)
              /\ DirName(gui.cur.dst) = SOURCE_BASE
      ]_vars

\* The job folder has been promoted twice and reverted twice in this
\* session and is back in the working area, with one ledger row for each
\* promotion.
C34_Witness ==
    /\ Len(SelectSeq(historyLog, LAMBDA h : h.status = "SUCCESS")) = 2
    /\ appended = 2 /\ stats["job"].moved = 2
    /\ Len(Matches(revertLog, JobName)) = 2 + (IF cfg.old = "reverted" THEN 1 ELSE 0)
    /\ NodeAt(fs, JobPath).id = "F"
    /\ ~Exists(fs, OldPath)

(***************************************************************************)
(* C39: in every promotion the ledger row is appended after shutil.move    *)
(* has returned and before the MOVED row is appended to the move log; at   *)
(* the moment the ledger row is appended the folder is at the moved path   *)
(* the row records and nothing is at the original path it records.         *)
(***************************************************************************)
C39_AppendedWhileAtMovedPath ==
    [][ /\ revertLog' # revertLog => \E i \in Slots : Records(i)
        /\ Len(MovedRows') > Len(MovedRows) =>
              \E i \in Slots : loops["job"][i].pc = "row" /\ loops'["job"][i].pc # "row"
        /\ \A i \in Slots :
              (Records(i) /\ revertLog' # revertLog) =>
                  LET row == revertLog'[Len(revertLog')]
                  IN  /\ row.original = loops["job"][i].cur.src
                      /\ row.moved = loops["job"][i].cur.dst
                      /\ IsDir(fs, row.moved)
                      /\ ~Exists(fs, row.original)
      ]_vars

(***************************************************************************)
(* C35: deleting ledger rows by hand moves no file or folder; it removes   *)
(* every row of each selected job number and keeps all rows of the other   *)
(* job numbers; a later revert of a deleted job number answers that no     *)
(* entry was found and moves nothing.                                      *)
(***************************************************************************)
NotSelected(rows) == SelectSeq(rows, LAMBDA r : r.job # OtherJob)

C35_DeletionKeepsOtherRows ==
    [][ /\ (gui' # gui /\ (gui.pc = "delete" \/ gui'.pc = "delete")) => fs' = fs
        /\ (gui.pc = "delete" /\ gui'.pc = "idle") =>
              /\ Matches(revertLog', OtherJob) = <<>>
              /\ NotSelected(revertLog') = NotSelected(revertLog)
        /\ (RevertStarts /\ gui'.job = OtherJob /\ Matches(revertLog, OtherJob) = <<>>) =>
              /\ gui'.pc = "idle"
              /\ gui'.result = "No revert entry found"
              /\ fs' = fs
      ]_vars

(***************************************************************************)
(* C36: whatever the sequence of start and stop commands, a stop followed  *)
(* by a start during the sleep between two cycles included, at most one    *)
(* poll loop of each watcher is alive at any time.                         *)
(***************************************************************************)
Alive(w) == {i \in Slots : loops[w][i].pc # "off"}

C36_OneLoopPerWatcher == \A w \in Watchers : Cardinality(Alive(w)) <= 1

(***************************************************************************)
(* C37: a job folder that a revert has put back in the working area with   *)
(* its trigger document inside is promoted again by the next poll cycle of *)
(* the job mover, which appends a further ledger row for the same job      *)
(* number, unless the job mover is stopped before.                         *)
(***************************************************************************)
\* The last revert succeeded and the job folder is in the working area with
\* a trigger document, while the job mover runs and has a cycle to come.
RevertedAndWatched ==
    /\ historyLog # <<>>
    /\ historyLog[Len(historyLog)].status = "SUCCESS"
    /\ historyLog[Len(historyLog)].job = JobName
    /\ NodeAt(fs, JobPath).id = "F"
    /\ NodeAt(fs, Join(JobPath, TrigUnderscore)).kind = "file"
    /\ running["job"]
    /\ cycles["job"] < cfg.cycles

MostRows == MaxCycles + MaxReverts + 2

C37_RevertedIsPromotedAgain ==
    \A n \in 0..MostRows :
        (RevertedAndWatched /\ Len(Matches(revertLog, JobName)) = n)
            ~> (Len(Matches(revertLog, JobName)) > n \/ ~running["job"])

\* The folder was promoted, reverted and, with the job mover still running,
\* promoted again: the ledger holds two rows for it.
C37_Witness ==
    /\ Len(Matches(revertLog, JobName)) = 2
    /\ historyLog # <<>> /\ historyLog[Len(historyLog)].status = "SUCCESS"
    /\ NodeAt(fs, OldPath).id = "F"
    /\ running["job"]

(***************************************************************************)
(* C38: an item that cannot be resolved is reported again in every poll    *)
(* cycle while it stays: an inbox file without job folder gets one ERROR   *)
(* row and one error count per cycle of the uploader, a trigger document   *)
(* without text or importer one SKIPPED row and one skip count per cycle   *)
(* of the job mover (no failure injected).                                 *)
(***************************************************************************)
\* The poll cycles of watcher w in which the item has been examined: all
\* begun so far but the current one while the item still waits in it.
Examined(w, item) ==
    cycles[w] - (IF \E k \in 1..Len(loops[w][1].todo) : loops[w][1].todo[k] = item
                 THEN 1 ELSE 0)

ErrorRowsOf(filename) ==
    Len(SelectSeq(oocLog, LAMBDA r : r.filename = filename
                                        /\ r.status = "ERROR: Folder not found"))
SkippedRowsOf(job, trigger) ==
    Len(SelectSeq(moveLog, LAMBDA r : r.job = job /\ r.trigger = trigger
                                        /\ r.action = "SKIPPED"))

C38_ReportedEveryCycle ==
    faults = 0 =>
        /\ cfg.old = "stuck" =>
              /\ ErrorRowsOf(NoFolder) = Examined("ooc", NoFolder)
              /\ stats["ooc"].errors = ErrorRowsOf(NoFolder)
              /\ Exists(fs, Join(UPLOAD_OOC, NoFolder))
        /\ cfg.old = "blank" =>
              /\ SkippedRowsOf(BlankName, TrigUnderscore)
                    = Examined("job", Join(BlankPath, TrigUnderscore))
              /\ SkippedRowsOf(BlankName, TrigSpace)
                    = Examined("job", Join(BlankPath, TrigSpace))
              /\ stats["job"].skipped = SkippedRowsOf(BlankName, TrigUnderscore)
                                          + SkippedRowsOf(BlankName, TrigSpace)

\* Two cycles of the uploader have left two ERROR rows for the one file.
C38_Witness ==
    /\ cfg.old = "stuck" /\ faults = 0
    /\ cycles["ooc"] = 2
    /\ ErrorRowsOf(NoFolder) = 2 /\ stats["ooc"].errors = 2

(***************************************************************************)
(* C40: a trigger document named with the job number and placed in the     *)
(* inbox, whose job folder is in the working area and whose text names an  *)
(* importer of the map, ends, while uploader and job mover both keep       *)
(* running and nothing fails, inside the job folder under the importer's   *)
(* company folder in the billing base, with a ledger row for the move.     *)
(***************************************************************************)
\* The inbox document is directly inside the directory.
DocIn(dir) == \E p \in DOMAIN fs : DirName(p) = dir /\ fs[p].id = "U"

BothRunning == running["ooc"] /\ running["job"]

\* The document waits in the inbox, its job folder is in the working area
\* and the uploader has a cycle to come.
InboxReady ==
    /\ NodeAt(fs, Join(UPLOAD_OOC, TrigUnderscore)).id = "U"
    /\ NodeAt(fs, JobPath).id = "F"
    /\ BothRunning
    /\ cycles["ooc"] < cfg.cycles

\* The document is inside the job folder in the working area.
Delivered == NodeAt(fs, JobPath).id = "F" /\ DocIn(JobPath)

DeliveredReady == Delivered /\ BothRunning /\ cycles["job"] < cfg.cycles

\* The job folder is under the company folder with the document inside,
\* and a ledger row names the path.
PromotedWithDoc ==
    \E p \in DOMAIN fs :
        /\ fs[p].id = "F" /\ IsPrefix(CompanyPath, p) /\ DocIn(p)
        /\ \E n \in 1..Len(revertLog) : revertLog[n].moved = p

\* The job folder left the working area while the document was still in
\* the inbox.
PromotedBefore ==
    /\ NodeAt(fs, Join(UPLOAD_OOC, TrigUnderscore)).id = "U"
    /\ NodeAt(fs, JobPath).id # "F"

\* A move of either watcher has failed.
SomeMoveFailed ==
    \/ \E n \in 1..Len(oocLog) : oocLog[n].status = "ERROR: move failed"
    \/ stats["job"].errors > 0

C40_EndToEnd ==
    /\ InboxReady ~> (Delivered \/ ~BothRunning \/ SomeMoveFailed)
    /\ DeliveredReady ~> (PromotedWithDoc \/ ~BothRunning \/ SomeMoveFailed)

\* The same for a job folder that is not promoted before the uploader has
\* moved the document into it.
C40_EndToEndIfDelivered ==
    /\ InboxReady ~> (Delivered \/ PromotedBefore \/ ~BothRunning \/ SomeMoveFailed)
    /\ DeliveredReady ~> (PromotedWithDoc \/ ~BothRunning \/ SomeMoveFailed)

\* The document went from the inbox into the job folder and with it to
\* the company folder.
C40_Witness ==
    /\ PromotedWithDoc
    /\ ~Exists(fs, Join(UPLOAD_OOC, TrigUnderscore))
    /\ NodeAt(fs, JobPath).id # "F"
    /\ BothRunning

====
